---- MODULE Spec2Model ----
(***************************************************************************)
(* Cache replay engine of htc-cache-system-simulator: the byte-accurate    *)
(* Storage, the state-driven processor protocol and the replacement        *)
(* policy states that the processor drives.                                *)
(***************************************************************************)
EXTENDS Integers, Sequences, FiniteSets, TLC

(***************************************************************************)
(* Bounds of the model.                                                    *)
(***************************************************************************)
\* number of distinct FileIDs
NumFiles == 2
\* part sizes are 0..MaxPartBytes
MaxPartBytes == 2
\* Storage capacities are 0..MaxCapacity
MaxCapacity == 2
\* number of accesses a processor is given
TraceLen == 3
UniformFiles == 3
UniformLen == 4
UniformCapacity == 2
\* number of accesses a policy state that is called directly is given
MaxCalls == 4
\* number of calls made on a FileLRUDict that is called directly
MaxOps == 4
\* for an ARC-bit processor: the number of files, the number of accesses and
\* the largest capacity of its Storage
ARCFiles == 3
ARCLen == 5
ARCCapacity == 3

FileIDs == 1..NumFiles
\* two part indices, so that a file has a part an access does not name
PartInds == {0, 1}
ByteSizes == 0..MaxPartBytes
\* PartSpec = (part_ind, bytes_read)
PartSpecs == PartInds \X ByteSizes
\* Sequence[PartSpec] of up to two entries, the same part index twice
\* included.  Storage only sums over a list and takes maxima along it, so a
\* list stands for its reorderings and only the sorted ones are drawn.
PartLists ==
    {<<>>} \cup {<<a>> : a \in PartSpecs}
      \cup {l \in PartSpecs \X PartSpecs :
               l[1][1] < l[2][1] \/ (l[1][1] = l[2][1] /\ l[1][2] <= l[2][2])}
\* the parts argument of evict_partially: None or an iterable of part indices
PartsArgs ==
    {[is_none |-> TRUE, inds |-> <<>>]}
      \cup {[is_none |-> FALSE, inds |-> l] : l \in {<<0>>, <<0, 1>>, <<1, 1>>}}
\* the fraction argument of evict_partially as <<numerator, denominator>>;
\* all of them are exact as binary floating point numbers
Fractions == {<<-1, 2>>, <<0, 1>>, <<1, 2>>, <<1, 1>>, <<3, 2>>}

VARIABLES
    driver,       \* "storage": Storage is called directly; "processor": a processor owns it
    storage,      \* Storage: [total_bytes, used_bytes, files]
    call,         \* the last direct Storage call: its arguments and its outcome
    policy,       \* the processor's replacement policy: [kind, mode]
    state,        \* StateDrivenProcessor._state, the policy state
    ind,          \* StateDrivenProcessor._ind
    pc,           \* position of the processor: "idle", "evicting" (inside _process_access) or "raised"
    loc,          \* the local variables of the _process_access call in progress
    info,         \* the AccessInfo the latest _process_access call returned, if it has returned
    hist,         \* history of the latest access: what the storage was before it, what evict returned
    error,        \* the exception that ended the processor, "" when none
    trace_files,  \* offline processors: the files of the buffered access sequence
    uniform       \* processors of several policies fed the same uniform-size trace:
                  \* [parts, runs], runs[name] = [policy, storage, state, raised, error, infos]

(***************************************************************************)
(* Helpers.                                                                *)
(***************************************************************************)
Min(a, b) == IF a < b THEN a ELSE b
Max(a, b) == IF a > b THEN a ELSE b

EmptyMap == [x \in {} |-> 0]

\* dict.get(key, 0)
Get(d, k) == IF k \in DOMAIN d THEN d[k] ELSE 0

\* sum(d.values())
RECURSIVE SumValues(_)
SumValues(d) ==
    IF DOMAIN d = {} THEN 0
    ELSE LET k == CHOOSE x \in DOMAIN d : TRUE
         IN d[k] + SumValues([x \in DOMAIN d \ {k} |-> d[x]])

\* del d[k]
Remove(d, k) == [x \in DOMAIN d \ {k} |-> d[x]]

\* d[k] = v
Put(d, k, v) == [x \in DOMAIN d \cup {k} |-> IF x = k THEN v ELSE d[x]]

(***************************************************************************)
(* Storage (cache/storage.py).  s is [total_bytes, used_bytes, files];     *)
(* files maps each stored FileID to a map PartInd -> BytesSize.            *)
(***************************************************************************)
NewStorage(total) == [total_bytes |-> total, used_bytes |-> 0, files |-> EmptyMap]

free_bytes(s) == s.total_bytes - s.used_bytes

contains_file(s, file) == file \in DOMAIN s.files

\* sum(part_bytes for part_ind, part_bytes in parts)
RECURSIVE requested_bytes(_)
requested_bytes(parts) ==
    IF parts = <<>> THEN 0 ELSE Head(parts)[2] + requested_bytes(Tail(parts))

RECURSIVE ContainedSum(_, _)
ContainedSum(file_parts, parts) ==
    IF parts = <<>> THEN 0
    ELSE Min(Get(file_parts, Head(parts)[1]), Head(parts)[2])
           + ContainedSum(file_parts, Tail(parts))

contained_bytes(s, file, parts) ==
    IF file \notin DOMAIN s.files THEN 0 ELSE ContainedSum(s.files[file], parts)

missing_bytes(s, file, parts) == requested_bytes(parts) - contained_bytes(s, file, parts)

\* sum of the sizes of Storage.parts(file), the parts of file in the storage
stored_bytes(s, file) ==
    IF file \notin DOMAIN s.files THEN 0 ELSE SumValues(s.files[file])

evict(s, file) ==
    IF file \notin DOMAIN s.files
    THEN [ret |-> 0, storage |-> s]
    ELSE LET evicted_bytes == SumValues(s.files[file])
         IN [ret |-> evicted_bytes,
             storage |-> [s EXCEPT !.files = Remove(s.files, file),
                                   !.used_bytes = @ - evicted_bytes]]

\* a variant storing the size an entry names, whatever was stored
placed_size_overwritten(file_parts, part_ind, part_bytes) == part_bytes

\* max(file_parts.get(part_ind, 0), part_bytes)
placed_size(file_parts, part_ind, part_bytes) == Max(Get(file_parts, part_ind), part_bytes)

\* the loop of place over parts: file_parts[part_ind] = max(...), entry by entry
RECURSIVE PlaceParts(_, _)
PlaceParts(file_parts, parts) ==
    IF parts = <<>> THEN file_parts
    ELSE PlaceParts(Put(file_parts, Head(parts)[1],
                        placed_size(file_parts, Head(parts)[1], Head(parts)[2])),
                    Tail(parts))

\* a variant that also refuses a request filling the storage exactly
place_refuses_exact_fit(s, file, parts) ==
    LET missing == missing_bytes(s, file, parts)
        file_parts == IF file \in DOMAIN s.files THEN s.files[file] ELSE EmptyMap
    IN IF free_bytes(s) <= missing
       THEN [raised |-> TRUE, ret |-> 0, storage |-> s]
       ELSE [raised |-> FALSE, ret |-> missing,
             storage |-> [s EXCEPT !.files = Put(s.files, file, PlaceParts(file_parts, parts)),
                                   !.used_bytes = @ + missing]]

\* a variant without the test of free_bytes
place_unguarded(s, file, parts) ==
    LET missing == missing_bytes(s, file, parts)
        file_parts == IF file \in DOMAIN s.files THEN s.files[file] ELSE EmptyMap
    IN [raised |-> FALSE, ret |-> missing,
        storage |-> [s EXCEPT !.files = Put(s.files, file, PlaceParts(file_parts, parts)),
                              !.used_bytes = @ + missing]]

\* a variant returning the requested bytes instead of the missing bytes
place_returns_requested(s, file, parts) ==
    LET missing == missing_bytes(s, file, parts)
        file_parts == IF file \in DOMAIN s.files THEN s.files[file] ELSE EmptyMap
    IN IF free_bytes(s) < missing
       THEN [raised |-> TRUE, ret |-> 0, storage |-> s]
       ELSE [raised |-> FALSE, ret |-> requested_bytes(parts),
             storage |-> [s EXCEPT !.files = Put(s.files, file, PlaceParts(file_parts, parts)),
                                   !.used_bytes = @ + missing]]

place(s, file, parts) ==
    LET missing == missing_bytes(s, file, parts)
        file_parts == IF file \in DOMAIN s.files THEN s.files[file] ELSE EmptyMap
    IN IF free_bytes(s) < missing
       THEN [raised |-> TRUE, ret |-> 0, storage |-> s]
       ELSE [raised |-> FALSE, ret |-> missing,
             storage |-> [s EXCEPT !.files = Put(s.files, file, PlaceParts(file_parts, parts)),
                                   !.used_bytes = @ + missing]]

\* Python's round() of the non-negative rational n / d: to nearest, ties to even
round(n, d) ==
    LET q == n \div d
        r == n % d
    IN IF 2 * r < d THEN q
       ELSE IF 2 * r > d THEN q + 1
       ELSE IF q % 2 = 0 THEN q ELSE q + 1

\* list(file_parts.keys()); the keys are distinct, so the order they are
\* visited in does not change what evict_partially does
RECURSIVE Keys(_)
Keys(file_parts) ==
    IF DOMAIN file_parts = {} THEN <<>>
    ELSE LET k == CHOOSE x \in DOMAIN file_parts : TRUE
         IN <<k>> \o Keys(Remove(file_parts, k))

\* the two loops of evict_partially over candidate_parts; the generator
\* filtering parts tests "part_ind in file_parts" when the loop reaches the entry
RECURSIVE EvictParts(_, _, _, _)
EvictParts(file_parts, cands, fraction, evicted_bytes) ==
    IF cands = <<>> THEN [file_parts |-> file_parts, evicted_bytes |-> evicted_bytes]
    ELSE LET part_ind == Head(cands)
         IN IF part_ind \notin DOMAIN file_parts
            THEN EvictParts(file_parts, Tail(cands), fraction, evicted_bytes)
            ELSE LET part_size == file_parts[part_ind]
                     part_evicted_bytes ==
                         IF fraction[1] = fraction[2] THEN part_size
                         ELSE round(fraction[1] * part_size, fraction[2])
                     part_remaining_size == part_size - part_evicted_bytes
                     fp == IF fraction[1] = fraction[2] \/ part_remaining_size = 0
                           THEN Remove(file_parts, part_ind)
                           ELSE Put(file_parts, part_ind, part_remaining_size)
                 IN EvictParts(fp, Tail(cands), fraction, evicted_bytes + part_evicted_bytes)

evict_partially(s, file, fraction, parts) ==
    IF fraction[1] < 0 \/ fraction[1] > fraction[2]
    THEN [raised |-> TRUE, ret |-> 0, storage |-> s]
    ELSE IF file \notin DOMAIN s.files
    THEN [raised |-> FALSE, ret |-> 0, storage |-> s]
    ELSE LET file_parts == s.files[file]
             candidate_parts == IF parts.is_none THEN Keys(file_parts) ELSE parts.inds
             r == EvictParts(file_parts, candidate_parts, fraction, 0)
             fs == IF DOMAIN r.file_parts = {}
                   THEN Remove(s.files, file)
                   ELSE Put(s.files, file, r.file_parts)
         IN [raised |-> FALSE, ret |-> r.evicted_bytes,
             storage |-> [s EXCEPT !.files = fs, !.used_bytes = @ - r.evicted_bytes]]


(***************************************************************************)
(* Priority values.  The queues of the policies hold Python numbers: ints, *)
(* floats and math.inf.  A value is the pair <<n, d>> standing for n / d,  *)
(* kept in lowest terms with d > 0; <<1, 0>> is math.inf.  Floats are      *)
(* taken as exact.                                                         *)
(***************************************************************************)
RECURSIVE Gcd(_, _)
Gcd(a, b) == IF b = 0 THEN a ELSE Gcd(b, a % b)

Abs(a) == IF a < 0 THEN -a ELSE a

Num(n) == <<n, 1>>
Inf == <<1, 0>>
Frac(n, d) == LET g == Gcd(Abs(n), d) IN <<n \div g, d \div g>>

QAdd(x, y) == Frac(x[1] * y[2] + y[1] * x[2], x[2] * y[2])
QSub(x, y) == Frac(x[1] * y[2] - y[1] * x[2], x[2] * y[2])
QMul(x, y) == Frac(x[1] * y[1], x[2] * y[2])
\* x / n for an integer n > 0
QDivInt(x, n) == Frac(x[1], x[2] * n)
QLess(x, y) == x[1] * y[2] < y[1] * x[2]
QMax(x, y) == IF QLess(x, y) THEN y ELSE x

(***************************************************************************)
(* LRUDict (dstructures/lru.py): an OrderedDict, here the sequence of its  *)
(* keys from the first to the last.                                        *)
(***************************************************************************)
InSeq(q, k) == \E i \in 1..Len(q) : q[i] = k

Without(q, k) == SelectSeq(q, LAMBDA x : x # k)

\* self._odict[key] = el: a new key goes to the end, a present key stays where it is
lru_setitem(q, k) == IF InSeq(q, k) THEN q ELSE Append(q, k)

\* self._odict.move_to_end(key, last=False), for a key of the dict
lru_access(q, k) == <<k>> \o Without(q, k)

\* self._odict.popitem(): the last key, for a dict that is not empty
lru_pop(q) == [key |-> q[Len(q)], odict |-> SubSeq(q, 1, Len(q) - 1)]

(***************************************************************************)
(* FileLRUDict (dstructures/lru.py): an LRUDict of FileInfo values with a  *)
(* running total, here [odict, size, total_size] with odict the keys in    *)
(* order and size the FileInfo.size of every key.  The operations are for  *)
(* a call that does not raise.                                             *)
(***************************************************************************)
FileLRUDict == [odict |-> <<>>, size |-> EmptyMap, total_size |-> 0]

\* FileLRUDict.__setitem__(file, FileInfo(size))
file_setitem(d, file, size) ==
    [odict |-> lru_setitem(d.odict, file), size |-> Put(d.size, file, size),
     total_size |-> d.total_size + size]

\* FileLRUDict.__delitem__(file)
file_delitem(d, file) ==
    [odict |-> Without(d.odict, file), size |-> Remove(d.size, file),
     total_size |-> d.total_size - d.size[file]]

\* LRUDict.access(file)
file_access(d, file) == [d EXCEPT !.odict = lru_access(d.odict, file)]

\* FileLRUDict.pop(): the popped key, its FileInfo.size and the dict left
file_pop(d) ==
    [key |-> lru_pop(d.odict).key, size |-> d.size[lru_pop(d.odict).key],
     dict |-> [odict |-> lru_pop(d.odict).odict, size |-> Remove(d.size, lru_pop(d.odict).key),
               total_size |-> d.total_size - d.size[lru_pop(d.odict).key]]]

\* FileLRUDict.add_bytes_to_file(file, number_of_bytes)
add_bytes_to_file(d, file, number_of_bytes) ==
    [d EXCEPT !.size[file] = @ + number_of_bytes, !.total_size = @ + number_of_bytes]

\* FileLRUDict.remove_bytes_to_file(file, number_of_bytes)
remove_bytes_to_file(d, file, number_of_bytes) ==
    [d EXCEPT !.size[file] = @ - number_of_bytes, !.total_size = @ - number_of_bytes]

(***************************************************************************)
(* KeyedPQ of the apq package: a heap of (key, value, data) entries with   *)
(* lookup by key, here the map key -> value.  Which of several entries of  *)
(* the same extreme value pop() returns is left open.                      *)
(***************************************************************************)
\* a variant of KeyedPQ.pop that may return any entry of the queue
PQAny(pq, max_heap) == DOMAIN pq

\* the keys pop() may return
PQTop(pq, max_heap) ==
    {k \in DOMAIN pq :
        \A j \in DOMAIN pq : IF max_heap THEN ~QLess(pq[k], pq[j]) ELSE ~QLess(pq[j], pq[k])}

\* KeyedPQ.ordered_iter(): the orders it may yield the keys in, from the top
\* of the heap on
PQOrders(pq, max_heap) ==
    {o \in [1..Cardinality(DOMAIN pq) -> DOMAIN pq] :
        /\ \A i, j \in DOMAIN o : i # j => o[i] # o[j]
        /\ \A i, j \in DOMAIN o :
              i < j => IF max_heap THEN ~QLess(pq[o[i]], pq[o[j]]) ELSE ~QLess(pq[o[j]], pq[o[i]])}

(***************************************************************************)
(* ReuseTimer (dstructures/accessseq.py) over the files of an access       *)
(* sequence; indices are 0-based as in the code.                           *)
(***************************************************************************)
\* the loop of _build_reuse_ind over reversed(accesses)
RECURSIVE BuildReuseLoop(_, _, _, _)
BuildReuseLoop(files_seq, rev_ind, next_access, reuse_ind) ==
    IF rev_ind >= Len(files_seq) THEN reuse_ind
    ELSE LET i == Len(files_seq) - rev_ind - 1
             file == files_seq[i + 1]
         IN BuildReuseLoop(files_seq, rev_ind + 1, Put(next_access, file, i),
                [reuse_ind EXCEPT ![i] =
                    IF file \in DOMAIN next_access THEN next_access[file] ELSE Len(files_seq)])

build_reuse_ind(files_seq) ==
    BuildReuseLoop(files_seq, 0, EmptyMap, [i \in 0..(Len(files_seq) - 1) |-> 0])

reuse_ind_inf(files_seq, i) ==
    IF build_reuse_ind(files_seq)[i] >= Len(files_seq) THEN Inf
    ELSE Num(build_reuse_ind(files_seq)[i])

(***************************************************************************)
(* Policy states (cache/algorithms).  A state is                           *)
(*   [lru, pq, size, threshold]:                                           *)
(* lru is the LRUDict of LRU and FIFO, pq the KeyedPQ of the other         *)
(* policies, size the _FileInfo.size kept by Landlord and threshold the    *)
(* _threshold of GreedyDual and the _rent_threshold of Landlord.  The      *)
(* access_threshold fields are written and never read; they are left out.  *)
(* Kind "Any" stands for the abstract StateDrivenProcessor.State: a policy *)
(* of which only the interface is known.                                   *)
(***************************************************************************)
LandlordModes == {"TOTAL_SIZE", "ACCESS_SIZE", "FETCH_SIZE", "ADD_FETCH_SIZE", "NO_COST"}
GreedyDualModes == {"TOTAL_SIZE", "ACCESS_SIZE"}

\* OBMA.Configuration(first_class, last_class, class_width): the default one,
\* whose first class holds every size below 2^12, and one with two classes,
\* the sizes below 2 and the sizes from 2 on
OBMAConfigurations == {"10_40_2", "0_1_1"}
Configuration(mode) ==
    IF mode = "10_40_2" THEN [first_class |-> 10, last_class |-> 40, class_width |-> 2]
    ELSE [first_class |-> 0, last_class |-> 1, class_width |-> 1]

\* MIND.Configuration(d_factor, min_d, max_d): d_factor as <<numerator,
\* denominator>>, min_d and max_d as <<>> for None and <<n>> for n
MINDConfigurations == {"1", "1/2", "1/2_min_2", "1/2_max_1"}
MINDConfiguration(mode) ==
    CASE mode = "1" -> [d_factor |-> <<1, 1>>, min_d |-> <<>>, max_d |-> <<>>]
      [] mode = "1/2" -> [d_factor |-> <<1, 2>>, min_d |-> <<>>, max_d |-> <<>>]
      [] mode = "1/2_min_2" -> [d_factor |-> <<1, 2>>, min_d |-> <<2>>, max_d |-> <<>>]
      [] OTHER -> [d_factor |-> <<1, 2>>, min_d |-> <<>>, max_d |-> <<1>>]

\* MINCod.Configuration: classes=False ("exact": one queue for every size), or
\* classes=True with first_class, last_class and class_width as for OBMA
MINCodConfigurations == {"exact", "10_40_2", "0_1_1"}

Policies ==
    {[kind |-> k, mode |-> ""] : k \in {"LRU", "FIFO", "MCF", "Size", "MIN", "Any"}}
      \cup {[kind |-> "GreedyDual", mode |-> m] : m \in GreedyDualModes}
      \cup {[kind |-> "Landlord", mode |-> m] : m \in LandlordModes}
      \cup {[kind |-> "OBMA", mode |-> m] : m \in OBMAConfigurations}

\* the policies whose State is called directly
StatePolicies ==
    {[kind |-> "GreedyDual", mode |-> m] : m \in GreedyDualModes}
      \cup {[kind |-> "MIND", mode |-> m] : m \in MINDConfigurations}
      \cup {[kind |-> "MINCod", mode |-> m] : m \in MINCodConfigurations}

\* MIN, OBMA, MIND and MINCod are StateDrivenOfflineProcessors: they buffer the
\* whole sequence first
Offline(p) == p.kind \in {"MIN", "OBMA", "MIND", "MINCod"}

\* KeyedPQ(max_heap=True) in Size.State and MIN.State
MaxHeap(p) == p.kind \in {"Size", "MIN", "MIND"}

init_state ==
    [lru |-> <<>>, pq |-> EmptyMap, size |-> EmptyMap, threshold |-> Num(0), classes |-> <<>>,
     sorted_dict |-> EmptyMap]

\* a KeyedPQ(max_heap=True) of MINCod without entries, with the _FileInfo.size of its entries
NewPQ == [pq |-> EmptyMap, size |-> EmptyMap]

\* _init_state / _init_full_state of the policy: OBMA starts with one empty
\* _Class for every bin
new_state(p) ==
    IF p.kind = "OBMA"
    THEN [init_state EXCEPT !.classes = [b \in 1..((Configuration(p.mode).last_class
              - Configuration(p.mode).first_class) \div Configuration(p.mode).class_width + 1) |->
                [pq |-> EmptyMap, size |-> EmptyMap, total_size |-> 0, eviction_counter |-> 0]]]
    ELSE IF p.kind = "MINCod" /\ p.mode # "exact"
    THEN [init_state EXCEPT !.classes = [b \in 1..((Configuration(p.mode).last_class
              - Configuration(p.mode).first_class) \div Configuration(p.mode).class_width + 1) |->
                NewPQ]]
    ELSE init_state

\* the files the policy state tracks
tracked_files(p, st) ==
    IF p.kind \in {"LRU", "FIFO"} THEN {st.lru[i] : i \in 1..Len(st.lru)}
    ELSE IF p.kind = "OBMA" THEN UNION {DOMAIN st.classes[i].pq : i \in 1..Len(st.classes)}
    ELSE IF p.kind = "ARCBit"
    THEN {st.top_once.odict[i] : i \in 1..Len(st.top_once.odict)}
           \cup {st.top_multiple.odict[i] : i \in 1..Len(st.top_multiple.odict)}
    ELSE IF p.kind = "MINCod"
    THEN UNION ({DOMAIN st.classes[i].pq : i \in 1..Len(st.classes)}
                  \cup {DOMAIN st.sorted_dict[c].pq : c \in DOMAIN st.sorted_dict})
    ELSE DOMAIN st.pq

Raised(e, st) == [raised |-> TRUE, error |-> e, candidates |-> <<>>, state |-> st]
Returned(c, st) == [raised |-> FALSE, error |-> "", candidates |-> c, state |-> st]

(***************************************************************************)
(* OBMA.State (cache/algorithms/obma.py) over a BinnedMapping with a       *)
(* bounded LogBinner (dstructures/binning.py).  classes is the container   *)
(* of the mapping: classes[b + 1] is the _Class of bin b, with pq the      *)
(* KeyedPQ(max_heap=True) as key -> value and size the _FileInfo.size of   *)
(* its entries.                                                            *)
(***************************************************************************)
\* int.bit_length() of a number that is not negative
RECURSIVE bit_length(_)
bit_length(num) == IF num = 0 THEN 0 ELSE 1 + bit_length(num \div 2)

\* LogBinner.__call__ with last # -1
binner(cfg, num) ==
    (Min(Max(bit_length(num) - 1, cfg.first_class), cfg.last_class) - cfg.first_class)
      \div cfg.class_width

\* LogBinner.bins
bins(cfg) == (cfg.last_class - cfg.first_class) \div cfg.class_width + 1

\* _Class.pop_file when pop() returns file, and _Class.remove_file of a file of the class
pop_file(clas, file) ==
    [clas EXCEPT !.pq = Remove(clas.pq, file), !.size = Remove(clas.size, file),
                 !.total_size = @ - clas.size[file]]

\* _Class.add_file of a file that is not in the class
add_file(clas, file, size, reuse_ind) ==
    [clas EXCEPT !.pq = Put(clas.pq, file, reuse_ind), !.size = Put(clas.size, file, size),
                 !.total_size = @ + size]

\* _Class.update_file of a file of the class
update_file(clas, file, size, reuse_ind) ==
    [clas EXCEPT !.pq = Put(clas.pq, file, reuse_ind), !.size = Put(clas.size, file, size),
                 !.total_size = @ - clas.size[file] + size]

\* the number of classes values_until(num, half_open=False) yields: bins 0..binner(num)
values_until(cfg, num) == Min(binner(cfg, num) + 1, bins(cfg))

\* sum(clas.total_size for clas in classes_before)
RECURSIVE SumTotalSize(_, _)
SumTotalSize(classes, n) ==
    IF n = 0 THEN 0 ELSE classes[n].total_size + SumTotalSize(classes, n - 1)

\* _round_up_to_evict: the values it may return, none when it raises
round_up_to_evict(cfg, classes, required_free_bytes) ==
    LET upper == {i \in (values_until(cfg, required_free_bytes) + 1)..bins(cfg) :
                     DOMAIN classes[i].pq # {}}
    IN IF SumTotalSize(classes, values_until(cfg, required_free_bytes)) < required_free_bytes
       THEN IF upper = {} THEN {}
            ELSE LET i == CHOOSE x \in upper : \A y \in upper : x <= y
                 IN {classes[i].size[k] : k \in PQTop(classes[i].pq, TRUE)}
       ELSE {required_free_bytes}

\* the while loop over a class of the first for loop of pop_eviction_candidates
RECURSIVE PopUntil(_, _, _, _)
PopUntil(clas, to_evict_bytes, evicted_bytes, candidates) ==
    IF DOMAIN clas.pq = {} \/ ~(evicted_bytes < to_evict_bytes)
    THEN {[clas |-> clas, candidates |-> candidates]}
    ELSE UNION {PopUntil(pop_file(clas, k), to_evict_bytes, evicted_bytes + clas.size[k],
                         Append(candidates, k)) : k \in PQTop(clas.pq, TRUE)}

\* the while loop over a class of the second for loop, eviction_counter already raised
RECURSIVE PopCounted(_, _)
PopCounted(clas, candidates) ==
    IF DOMAIN clas.pq = {} THEN {[clas |-> clas, candidates |-> candidates]}
    ELSE UNION {IF clas.eviction_counter > clas.size[k]
                THEN PopCounted([pop_file(clas, k) EXCEPT !.eviction_counter = @ - clas.size[k]],
                                Append(candidates, k))
                ELSE {[clas |-> clas, candidates |-> candidates]} : k \in PQTop(clas.pq, TRUE)}

\* the two for loops of OBMA.State.pop_eviction_candidates from class i on
RECURSIVE PopClasses(_, _, _, _, _)
PopClasses(classes, i, last_before, to_evict_bytes, candidates) ==
    IF i > Len(classes) THEN {[classes |-> classes, candidates |-> candidates]}
    ELSE LET outs == IF i <= last_before
                     THEN PopUntil(classes[i], to_evict_bytes, 0, candidates)
                     ELSE PopCounted([classes[i] EXCEPT !.eviction_counter = @ + to_evict_bytes],
                                     candidates)
         IN UNION {PopClasses([classes EXCEPT ![i] = o.clas], i + 1, last_before,
                              to_evict_bytes, o.candidates) : o \in outs}

\* State.pop_eviction_candidates: the set of its possible outcomes; l holds the
\* locals of _process_access that the call passes
(***************************************************************************)
(* MIND.State and MINCod.State (cache/algorithms/mind.py).                 *)
(***************************************************************************)
\* the loop of MIND.State.pop_eviction_candidates over islice(ordered_iter(), d)
RECURSIVE MINDLoop(_, _, _, _, _)
MINDLoop(size, o, i, d, min_item) ==
    IF i > Len(o) \/ i > d THEN min_item
    ELSE MINDLoop(size, o, i + 1, d, IF size[o[i]] < size[min_item] THEN o[i] ELSE min_item)

\* d of MIND.State.pop_eviction_candidates for a queue of n entries
MINDd(cfg, n) ==
    LET d1 == IF cfg.min_d # <<>> THEN Max(cfg.min_d[1], n) ELSE n
    IN IF cfg.max_d # <<>> THEN Min(cfg.max_d[1], d1) ELSE d1

\* a variant of the ratio that leaves the size out
CodOfDistance(size, value) == IF value = Inf THEN Num(0) ELSE Frac(value[2], value[1])

\* item.data.size / item.value, and pq_min_cost / item.value
Cod(size, value) == IF value = Inf THEN Num(0) ELSE Frac(size * value[2], value[1])

\* min_item, the key it was found under and min_cod before the first item
NoMinItem == [file |-> 0, key |-> 0, cod |-> Inf]

\* the keys of a sorted dict in order
RECURSIVE SortedKeys(_)
SortedKeys(S) ==
    IF S = {} THEN <<>>
    ELSE LET k == CHOOSE x \in S : \A y \in S : x <= y IN <<k>> \o SortedKeys(S \ {k})

\* the loop of _pop_eviction_candidate_using_sorted_dict over the remaining keys
RECURSIVE SortedDictLoop(_, _, _)
SortedDictLoop(sorted_dict, keys, min) ==
    IF keys = <<>> THEN {min}
    ELSE LET pq_cost == Head(keys)
             pq == sorted_dict[pq_cost]
         IN IF DOMAIN pq.pq = {} THEN {[file |-> -1, key |-> pq_cost, cod |-> Inf]}
            ELSE UNION {SortedDictLoop(sorted_dict, Tail(keys),
                            IF QLess(Cod(pq.size[item], pq.pq[item]), min.cod)
                            THEN [file |-> item, key |-> pq_cost,
                                  cod |-> Cod(pq.size[item], pq.pq[item])]
                            ELSE min)
                          : item \in PQTop(pq.pq, TRUE)}

\* LogBinner.bin_edges: the lower edge of a bin
bin_edge(cfg, bin) == IF bin = 0 THEN 0 ELSE 2 ^ (cfg.first_class + bin * cfg.class_width)

\* the inner loop of _pop_eviction_candidate_using_classes over ordered_iter()
\* of one queue, with its break
RECURSIVE ClassLoop(_, _, _, _, _, _)
ClassLoop(pq, o, i, pq_min_cost, b, min) ==
    IF i > Len(o) THEN min
    ELSE LET item == o[i]
             cod == Cod(pq.size[item], pq.pq[item])
             min2 == IF QLess(cod, min.cod) THEN [file |-> item, key |-> b, cod |-> cod] ELSE min
         IN IF ~QLess(Cod(pq_min_cost, pq.pq[item]), min2.cod) THEN min2
            ELSE ClassLoop(pq, o, i + 1, pq_min_cost, b, min2)

\* the outer loop of _pop_eviction_candidate_using_classes over the classes from b on
RECURSIVE ClassesLoop(_, _, _, _)
ClassesLoop(cfg, classes, b, min) ==
    IF b > Len(classes) THEN {min}
    ELSE IF DOMAIN classes[b].pq = {} THEN ClassesLoop(cfg, classes, b + 1, min)
    ELSE UNION {ClassesLoop(cfg, classes, b + 1,
                            ClassLoop(classes[b], o, 1, bin_edge(cfg, b - 1), b, min))
                  : o \in PQOrders(classes[b].pq, TRUE)}

\* del pq[file]
pq_del(pq, file) == [pq |-> Remove(pq.pq, file), size |-> Remove(pq.size, file)]

\* pq.add(file, value, _FileInfo(size)), and the change of an entry
pq_add(pq, file, value, size) == [pq |-> Put(pq.pq, file, value), size |-> Put(pq.size, file, size)]

(***************************************************************************)
(* ARCBit.State (cache/algorithms/arc.py): the four FileLRUDicts           *)
(* top_once (T1), bottom_once (B1), top_multiple (T2), bottom_multiple     *)
(* (B2) and the sizes fixed at construction.  An operation returns         *)
(* [raised, error, a, candidates]; error names the statement that raised.  *)
(***************************************************************************)
\* ARCBit.Configuration(ghosts_factor) as <<numerator, denominator>>
GhostsFactors == {<<1, 1>>, <<1, 2>>}

\* ARCBit.State(total_size, configuration)
ARCBitState(total_size, ghosts_factor) ==
    [total_size |-> total_size,
     top_once_target_size |-> 0,
     ghosts_total_size |-> (total_size * ghosts_factor[1]) \div ghosts_factor[2],
     once_total_size |-> ((ghosts_factor[2] + ghosts_factor[1]) * total_size)
                            \div (2 * ghosts_factor[2]),
     top_once |-> FileLRUDict, bottom_once |-> FileLRUDict,
     top_multiple |-> FileLRUDict, bottom_multiple |-> FileLRUDict]

ARCRaised(e, a) == [raised |-> TRUE, error |-> e, a |-> a, candidates |-> <<>>]
ARCReturned(c, a) == [raised |-> FALSE, error |-> "", a |-> a, candidates |-> c]

\* _average_file_size, for a state that tracks a file
average_file_size(a) ==
    round(a.top_once.total_size + a.bottom_once.total_size
            + a.top_multiple.total_size + a.bottom_multiple.total_size,
          Len(a.top_once.odict) + Len(a.bottom_once.odict)
            + Len(a.top_multiple.odict) + Len(a.bottom_multiple.odict))

\* round(max(numerator / denominator, 1) * _average_file_size())
target_step(a, numerator, denominator) ==
    IF numerator > denominator
    THEN round(numerator * average_file_size(a), denominator)
    ELSE average_file_size(a)

\* the new target of a hit in bottom_once (lines 93-100)
target_after_once_hit(a) ==
    Min(a.total_size, a.top_once_target_size
                        + target_step(a, a.bottom_multiple.total_size, a.bottom_once.total_size))

\* the new target of a hit in bottom_multiple (lines 119-126)
target_after_multiple_hit(a) ==
    Max(0, a.total_size
             - target_step(a, a.bottom_once.total_size, a.bottom_multiple.total_size))

\* _move_file(file, origin, dest), for a file of origin
move_file(a, file, origin, dest) ==
    [a EXCEPT ![origin] = file_delitem(@, file),
              ![dest] = file_setitem(@, file, a[origin].size[file])]

\* _move_file_from_bottom(file, origin, dest, requested_bytes)
move_file_from_bottom(a, file, origin, dest, requested) ==
    [a EXCEPT ![origin] = IF InSeq(@.odict, file) THEN file_delitem(@, file) ELSE @,
              ![dest] = file_setitem(@, file, requested)]

\* the inner loop of _evict (lines 192-196)
RECURSIVE trim_ghosts(_, _)
trim_ghosts(a, candidate_size) ==
    IF a.bottom_once.total_size + a.bottom_multiple.total_size + candidate_size
         > a.ghosts_total_size
    THEN IF a.bottom_multiple.odict = <<>>
         THEN ARCRaised("KeyError: _bottom_multiple.pop()", a)
         ELSE trim_ghosts([a EXCEPT !.bottom_multiple = file_pop(@).dict], candidate_size)
    ELSE ARCReturned(<<>>, a)

\* the choice of the list _evict takes its next candidate from (lines 172-187)
evict_origin(a, required_bytes, in_once) ==
    IF /\ Len(a.top_once.odict) > 1
       /\ \/ a.top_once.total_size > a.top_once_target_size
          \/ (~in_once /\ a.top_once.total_size + required_bytes > a.top_once_target_size)
          \/ Len(a.top_multiple.odict) = 0
    THEN "top_once"
    ELSE "top_multiple"

\* the ghost list _evict moves a candidate of origin to (lines 183, 186)
evict_dest(origin) == IF origin = "top_once" THEN "bottom_once" ELSE "bottom_multiple"

\* _move_lru(origin, dest), popped being origin.pop()
move_lru(a, origin, dest, popped) ==
    [a EXCEPT ![origin] = popped.dict,
              ![dest] = file_setitem(@, popped.key, popped.size)]

RECURSIVE evict_loop(_, _, _, _)

\* the end of one round of _evict: candidates.append(candidate) and the next
\* round, unless the trimming loop raised (lines 192-198)
evict_trimmed(trimmed, candidate, required_bytes, in_once, candidates) ==
    IF trimmed.raised THEN trimmed
    ELSE evict_loop(trimmed.a, required_bytes, in_once, Append(candidates, candidate))

\* one round of _evict with the candidate popped from origin (lines 183-198)
evict_popped(a, origin, popped, required_bytes, in_once, candidates) ==
    evict_trimmed(trim_ghosts(move_lru(a, origin, evict_dest(origin), popped), popped.size),
                  popped.key, required_bytes, in_once, candidates)

\* one round of _evict from the chosen list; pop raises on an empty list
evict_from(a, origin, required_bytes, in_once, candidates) ==
    IF a[origin].odict = <<>> THEN ARCRaised("KeyError: _move_lru", a)
    ELSE evict_popped(a, origin, file_pop(a[origin]), required_bytes, in_once, candidates)

\* the outer loop of _evict (lines 170-198)
evict_loop(a, required_bytes, in_once, candidates) ==
    IF a.top_once.total_size + a.top_multiple.total_size + required_bytes > a.total_size
    THEN evict_from(a, evict_origin(a, required_bytes, in_once), required_bytes, in_once,
                    candidates)
    ELSE ARCReturned(candidates, a)

\* _evict(required_bytes, in_once)
arc_evict(a, required_bytes, in_once) == evict_loop(a, required_bytes, in_once, <<>>)

\* the loop of case 4 of pop_eviction_candidates (lines 145-153)
RECURSIVE once_loop(_, _, _)
once_loop(a, missing, candidates) ==
    IF a.top_once.total_size + a.bottom_once.total_size + missing > a.once_total_size
    THEN IF Len(a.bottom_once.odict) > 0
         THEN once_loop([a EXCEPT !.bottom_once = file_pop(@).dict], missing, candidates)
         ELSE IF a.top_once.odict = <<>> THEN ARCRaised("KeyError: _top_once.pop()", a)
         ELSE once_loop([a EXCEPT !.top_once = file_pop(@).dict], missing,
                        Append(candidates, file_pop(a.top_once).key))
    ELSE ARCReturned(candidates, a)

\* case 1 when the first _evict has evicted the file itself (lines 79-83),
\* e2 being the outcome of the second _evict
arc_hit_evicted(e1, e2, file, requested) ==
    IF e2.raised THEN e2
    ELSE ARCReturned(e1.candidates \o e2.candidates,
            [e2.a EXCEPT !.top_multiple = file_setitem(@, file, requested)])

\* case 1 after the first _evict, e1 being its outcome (lines 78-86)
arc_hit_after_evict(e1, file, requested, missing, in_top_once) ==
    IF e1.raised THEN e1
    ELSE IF InSeq(e1.candidates, file)
    THEN arc_hit_evicted(e1, arc_evict(e1.a, requested, in_top_once), file, requested)
    ELSE IF ~InSeq(e1.a.top_multiple.odict, file)
    THEN ARCRaised("KeyError: add_bytes_to_file", e1.a)
    ELSE ARCReturned(e1.candidates,
            [e1.a EXCEPT !.top_multiple = add_bytes_to_file(@, file, missing)])

\* case 1: the file is in the cache (lines 69-86)
arc_hit(a, file, requested, missing, in_top_once) ==
    arc_hit_after_evict(
        arc_evict(IF in_top_once THEN move_file(a, file, "top_once", "top_multiple")
                  ELSE [a EXCEPT !.top_multiple = file_access(@, file)],
                  missing, in_top_once),
        file, requested, missing, in_top_once)

\* cases 2 and 3 after _evict, e being its outcome (lines 102-111, 128-137)
arc_ghost_hit_after_evict(e, file, origin, missing) ==
    IF e.raised THEN e
    ELSE ARCReturned(e.candidates,
            move_file_from_bottom(e.a, file, origin, "top_multiple", missing))

\* case 4 after _evict, o being the outcome of the loop and e of _evict
\* (lines 155-159)
arc_miss_after_evict(o, e, file, missing) ==
    IF e.raised THEN e
    ELSE ARCReturned(o.candidates \o e.candidates,
            [e.a EXCEPT !.top_once = file_setitem(@, file, missing)])

\* case 4 after its loop, o being the outcome of the loop (lines 155-159)
arc_miss_after_once(o, file, missing) ==
    IF o.raised THEN o
    ELSE arc_miss_after_evict(o, arc_evict(o.a, missing, FALSE), file, missing)

\* ARCBit.State.pop_eviction_candidates(file, requested_bytes, missing_bytes)
arc_pop_eviction_candidates(a, file, requested, missing) ==
    IF InSeq(a.top_multiple.odict, file) \/ InSeq(a.top_once.odict, file)
    THEN arc_hit(a, file, requested, missing, InSeq(a.top_once.odict, file))
    ELSE IF InSeq(a.bottom_once.odict, file)
    THEN arc_ghost_hit_after_evict(
             arc_evict([a EXCEPT !.top_once_target_size = target_after_once_hit(a)],
                       missing, TRUE),
             file, "bottom_once", missing)
    ELSE IF InSeq(a.bottom_multiple.odict, file)
    THEN arc_ghost_hit_after_evict(
             arc_evict([a EXCEPT !.top_once_target_size = target_after_multiple_hit(a)],
                       missing, FALSE),
             file, "bottom_multiple", missing)
    ELSE arc_miss_after_once(once_loop(a, missing, <<>>), file, missing)

\* the end of process_access for bytes placed without a removal: the nested
\* pop_eviction_candidates must yield nothing (lines 310-323)
arc_no_candidates(r) ==
    IF r.raised THEN r
    ELSE IF Len(r.candidates) > 0
    THEN ARCRaised("Exception: yields eviction candidates", r.a)
    ELSE r

\* ARCBit.State.process_access(file, ind, ensure, info)
arc_process_access(a, file, ai) ==
    IF ai.bytes_added = 0
    THEN IF InSeq(a.top_multiple.odict, file)
         THEN ARCReturned(<<>>, [a EXCEPT !.top_multiple = file_access(@, file)])
         ELSE IF InSeq(a.top_once.odict, file)
         THEN ARCReturned(<<>>, move_file(a, file, "top_once", "top_multiple"))
         ELSE ARCRaised("Exception: not in the cache directory", a)
    ELSE IF ai.bytes_removed = 0
    THEN arc_no_candidates(arc_pop_eviction_candidates(a, file, ai.bytes_hit + ai.bytes_missed,
                                                       ai.bytes_missed))
    ELSE ARCReturned(<<>>, a)

pop_eviction_candidates(p, st, l) ==
    CASE p.kind \in {"LRU", "FIFO"} ->
           IF st.lru = <<>> THEN {Raised("KeyError", st)}
           ELSE {Returned(<<lru_pop(st.lru).key>>, [st EXCEPT !.lru = lru_pop(st.lru).odict])}
      [] p.kind \in {"MCF", "Size", "MIN"} ->
           IF DOMAIN st.pq = {} THEN {Raised("IndexError", st)}
           ELSE {Returned(<<k>>, [st EXCEPT !.pq = Remove(st.pq, k)]) : k \in PQTop(st.pq, MaxHeap(p))}
      [] p.kind = "GreedyDual" ->
           IF DOMAIN st.pq = {} THEN {Raised("IndexError", st)}
           ELSE {Returned(<<k>>, [st EXCEPT !.pq = Remove(st.pq, k), !.threshold = st.pq[k]])
                    : k \in PQTop(st.pq, FALSE)}
      [] p.kind = "Landlord" ->
           IF DOMAIN st.pq = {} THEN {Raised("IndexError", st)}
           ELSE {Returned(<<k>>, [st EXCEPT !.pq = Remove(st.pq, k), !.size = Remove(st.size, k),
                                            !.threshold = st.pq[k]])
                    : k \in PQTop(st.pq, FALSE)}
      [] p.kind = "MIND" ->
           IF DOMAIN st.pq = {} THEN {Raised("IndexError", st)}
           ELSE {Returned(<<k>>, [st EXCEPT !.pq = Remove(st.pq, k), !.size = Remove(st.size, k)])
                    : k \in {MINDLoop(st.size, o, 1,
                                      MINDd(MINDConfiguration(p.mode), Cardinality(DOMAIN st.pq)),
                                      min_item)
                               : o \in PQOrders(st.pq, TRUE), min_item \in PQTop(st.pq, TRUE)}}
      [] p.kind = "MINCod" /\ p.mode = "exact" ->
           {IF m.file = 0 THEN Raised("Exception", st)
            ELSE IF m.file = -1 THEN Raised("IndexError", st)
            ELSE Returned(<<m.file>>,
                    [st EXCEPT !.sorted_dict =
                        IF DOMAIN pq_del(@[m.key], m.file).pq = {} THEN Remove(@, m.key)
                        ELSE Put(@, m.key, pq_del(@[m.key], m.file))])
              : m \in SortedDictLoop(st.sorted_dict, SortedKeys(DOMAIN st.sorted_dict), NoMinItem)}
      [] p.kind = "MINCod" ->
           {IF m.file = 0 THEN Raised("Exception", st)
            ELSE Returned(<<m.file>>, [st EXCEPT !.classes[m.key] = pq_del(@, m.file)])
              : m \in ClassesLoop(Configuration(p.mode), st.classes, 1, NoMinItem)}
      [] p.kind = "ARCBit" ->
           LET r == arc_pop_eviction_candidates(st, l.file, l.requested_bytes, l.missing_bytes)
           IN {IF r.raised THEN Raised(r.error, st) ELSE Returned(r.candidates, r.a)}
      [] p.kind = "OBMA" ->
           LET cfg == Configuration(p.mode)
               required_free_bytes == l.missing_bytes - l.free_bytes
           IN IF round_up_to_evict(cfg, st.classes, required_free_bytes) = {}
              THEN {Raised("Exception", st)}
              ELSE UNION {{Returned(o.candidates, [st EXCEPT !.classes = o.classes])
                             : o \in PopClasses(st.classes, 1, values_until(cfg, required_free_bytes),
                                                to_evict_bytes, <<>>)}
                            : to_evict_bytes \in round_up_to_evict(cfg, st.classes, required_free_bytes)}
      [] OTHER ->
           {Raised("NoEvictionCandidate", st)}
             \cup {Returned(c, st) : c \in UNION {[1..n -> FileIDs] : n \in 1..2}}

\* a variant of _credit that charges the file its size instead of crediting it
landlord_credit_charged(mode, requested, placed_bytes, total_bytes, current_credit) ==
    QSub(Num(0), Num(total_bytes))

\* Landlord.State._credit
landlord_credit(mode, requested, placed_bytes, total_bytes, current_credit) ==
    CASE mode = "TOTAL_SIZE" -> Num(total_bytes)
      [] mode = "ACCESS_SIZE" -> QMax(current_credit, Num(requested))
      [] mode = "FETCH_SIZE" -> QMax(current_credit, Num(placed_bytes))
      [] mode = "ADD_FETCH_SIZE" -> QAdd(current_credit, Num(placed_bytes))
      [] OTHER -> IF current_credit = Num(0) THEN Num(total_bytes) ELSE current_credit

Failed(e, st) == [raised |-> TRUE, error |-> e, state |-> st]
Done(st) == [raised |-> FALSE, error |-> "", state |-> st]

\* State.process_access(file, ind, ensure, info); files_seq is the access
\* sequence the ReuseTimer of MIN was built from
process_access(p, st, file, i, ensure, ai, files_seq) ==
    CASE p.kind = "LRU" ->
           LET q == IF ensure THEN lru_setitem(st.lru, file) ELSE st.lru
           IN IF ~InSeq(q, file) THEN Failed("KeyError", st)
              ELSE Done([st EXCEPT !.lru = lru_access(q, file)])
      [] p.kind = "FIFO" ->
           IF ensure THEN Done([st EXCEPT !.lru = lru_access(lru_setitem(st.lru, file), file)])
           ELSE Done(st)
      [] p.kind \in {"MCF", "Size"} ->
           Done([st EXCEPT !.pq = Put(st.pq, file, Num(ai.total_bytes))])
      [] p.kind = "MIN" ->
           Done([st EXCEPT !.pq = Put(st.pq, file, reuse_ind_inf(files_seq, i))])
      [] p.kind = "ARCBit" ->
           LET r == arc_process_access(st, file, ai)
           IN IF r.raised THEN Failed(r.error, st) ELSE Done(r.a)
      [] p.kind = "MIND" ->
           Done([st EXCEPT !.pq = Put(st.pq, file, reuse_ind_inf(files_seq, i)),
                           !.size = Put(st.size, file, ai.total_bytes)])
      [] p.kind = "MINCod" /\ p.mode = "exact" ->
           LET old_size == ai.total_bytes - ai.bytes_added
               new_size == ai.total_bytes
               reuse_ind == reuse_ind_inf(files_seq, i)
               sd == st.sorted_dict
               old_pq == IF old_size \in DOMAIN sd THEN sd[old_size] ELSE NewPQ
               new_pq == IF new_size \in DOMAIN sd THEN sd[new_size] ELSE NewPQ
               popped == IF DOMAIN pq_del(old_pq, file).pq = {} THEN Remove(sd, old_size)
                         ELSE Put(sd, old_size, pq_del(old_pq, file))
           IN IF old_size = 0
              THEN IF file \in DOMAIN new_pq.pq
                   THEN Failed("KeyError", st)
                   ELSE Done([st EXCEPT !.sorted_dict =
                                Put(sd, new_size, pq_add(new_pq, file, reuse_ind, new_size))])
              ELSE IF old_size # new_size
              THEN IF file \notin DOMAIN old_pq.pq
                   THEN Failed("KeyError", [st EXCEPT !.sorted_dict = Put(sd, old_size, old_pq)])
                   ELSE IF new_size \in DOMAIN popped /\ file \in DOMAIN popped[new_size].pq
                   THEN Failed("KeyError", [st EXCEPT !.sorted_dict = popped])
                   ELSE Done([st EXCEPT !.sorted_dict =
                                Put(popped, new_size,
                                    pq_add(IF new_size \in DOMAIN popped THEN popped[new_size]
                                           ELSE NewPQ, file, reuse_ind, new_size))])
              ELSE IF file \notin DOMAIN new_pq.pq
                   THEN Failed("KeyError", [st EXCEPT !.sorted_dict = Put(sd, new_size, new_pq)])
                   ELSE Done([st EXCEPT !.sorted_dict =
                                Put(sd, new_size, pq_add(new_pq, file, reuse_ind, new_size))])
      [] p.kind = "MINCod" ->
           LET cfg == Configuration(p.mode)
               old_size == ai.total_bytes - ai.bytes_added
               new_size == ai.total_bytes
               o == binner(cfg, old_size) + 1
               n == binner(cfg, new_size) + 1
               reuse_ind == reuse_ind_inf(files_seq, i)
           IN IF old_size = 0
              THEN IF file \in DOMAIN st.classes[n].pq THEN Failed("KeyError", st)
                   ELSE Done([st EXCEPT !.classes[n] = pq_add(@, file, reuse_ind, new_size)])
              ELSE IF o # n
              THEN IF file \notin DOMAIN st.classes[o].pq THEN Failed("KeyError", st)
                   ELSE IF file \in DOMAIN st.classes[n].pq
                   THEN Failed("KeyError", [st EXCEPT !.classes[o] = pq_del(@, file)])
                   ELSE Done([st EXCEPT !.classes[o] = pq_del(@, file),
                                        !.classes[n] = pq_add(@, file, reuse_ind, new_size)])
              ELSE IF file \notin DOMAIN st.classes[n].pq THEN Failed("KeyError", st)
                   ELSE Done([st EXCEPT !.classes[n] = pq_add(@, file, reuse_ind, new_size)])
      [] p.kind = "GreedyDual" /\ p.mode = "TOTAL_SIZE" ->
           LET credit == QAdd(Num(ai.total_bytes), st.threshold)
           IN Done([st EXCEPT !.pq = Put(st.pq, file, QAdd(st.threshold, credit))])
      [] p.kind = "GreedyDual" /\ p.mode = "ACCESS_SIZE" ->
           LET current_credit == IF file \in DOMAIN st.pq
                                 THEN QSub(st.pq[file], st.threshold) ELSE Num(0)
               credit == QMax(current_credit, Num(ai.bytes_hit + ai.bytes_missed))
           IN Done([st EXCEPT !.pq = Put(st.pq, file, QAdd(st.threshold, credit))])
      [] p.kind = "Landlord" ->
           LET current_credit == IF file \in DOMAIN st.pq
                                 THEN QMul(QSub(st.pq[file], st.threshold), Num(st.size[file]))
                                 ELSE Num(0)
               credit == landlord_credit(p.mode, ai.bytes_hit + ai.bytes_missed,
                                         ai.bytes_added, ai.total_bytes, current_credit)
           IN IF ai.total_bytes = 0 THEN Failed("ZeroDivisionError", st)
              ELSE Done([st EXCEPT
                     !.pq = Put(st.pq, file, QAdd(QDivInt(credit, ai.total_bytes), st.threshold)),
                     !.size = Put(st.size, file, ai.total_bytes)])
      [] p.kind = "OBMA" ->
           LET cfg == Configuration(p.mode)
               old_size == ai.total_bytes - ai.bytes_added
               new_size == ai.total_bytes
               o == binner(cfg, old_size) + 1
               n == binner(cfg, new_size) + 1
               reuse_ind == reuse_ind_inf(files_seq, i)
           IN IF old_size = 0
              THEN IF file \in DOMAIN st.classes[n].pq THEN Failed("KeyError", st)
                   ELSE Done([st EXCEPT !.classes[n] = add_file(@, file, new_size, reuse_ind)])
              ELSE IF o # n
              THEN IF file \notin DOMAIN st.classes[o].pq \/ file \in DOMAIN st.classes[n].pq
                   THEN Failed("KeyError", st)
                   ELSE Done([st EXCEPT !.classes[o] = pop_file(@, file),
                                        !.classes[n] = add_file(@, file, new_size, reuse_ind)])
              ELSE IF file \notin DOMAIN st.classes[n].pq THEN Failed("KeyError", st)
                   ELSE Done([st EXCEPT !.classes[n] = update_file(@, file, new_size, reuse_ind)])
      [] OTHER -> Done(st)

(***************************************************************************)
(* StateDrivenProcessor (cache/state.py).                                  *)
(***************************************************************************)
\* whether State.pop_eviction_candidates of the policy has the ts parameter
\* _process_access passes by keyword; Size.State inherits the one of MCF.State
accepts_ts(p) == p.kind \in {"MCF", "Size", "MIN", "OBMA", "MIND", "MINCod", "ARCBit", "Any"}

NoLoc ==
    [ind |-> 0, file |-> 0, parts |-> <<>>, file_hit |-> FALSE, requested_bytes |-> 0,
     contained_bytes |-> 0, missing_bytes |-> 0, in_cache_bytes |-> 0, free_bytes |-> 0,
     evicted_files |-> <<>>, evicted_bytes |-> 0, candidates |-> <<>>]

NoInfo ==
    [valid |-> FALSE, file |-> 0, parts |-> <<>>, file_hit |-> FALSE, bytes_hit |-> 0,
     bytes_missed |-> 0, bytes_added |-> 0, bytes_removed |-> 0, total_bytes |-> 0,
     evicted_files |-> <<>>]

AccessInfo(file, parts, file_hit, bytes_hit, bytes_missed, bytes_added, bytes_removed, total_bytes, evicted_files) ==
    [valid |-> TRUE, file |-> file, parts |-> parts, file_hit |-> file_hit,
     bytes_hit |-> bytes_hit, bytes_missed |-> bytes_missed, bytes_added |-> bytes_added,
     bytes_removed |-> bytes_removed, total_bytes |-> total_bytes,
     evicted_files |-> evicted_files]

NoHist == [used_before |-> 0, file_before |-> FALSE, evictions |-> <<>>]

\* the file of the next access: an offline processor reads it from its buffer
NextFiles ==
    IF Offline(policy) THEN {trace_files[ind + 1]}
    ELSE IF policy.kind = "ARCBit" THEN 1..ARCFiles
    ELSE FileIDs

\* the policy may be asked for candidates while an access has evicted at most
\* this many files
MaxEvicted == NumFiles + 1

\* the number of accesses a processor is given
RunLen == IF policy.kind = "ARCBit" THEN ARCLen ELSE TraceLen

\* the part lists of the accesses: for ARC-bit a part of no bytes, the parts
\* of one byte, the first part with every size, and one list that names a
\* part twice
NextParts ==
    IF policy.kind = "ARCBit"
    THEN {l \in PartLists : \/ (Len(l) = 1 /\ (l[1][1] = 0 \/ l[1][2] = 1))
                             \/ l = <<<<0, 1>>, <<0, 1>>>>}
    ELSE PartLists

\* _process_access up to the eviction loop: lines 72-97, the full-hit return included
BeginAccess ==
    /\ driver = "processor"
    /\ pc = "idle"
    /\ ind < RunLen
    /\ \E file \in NextFiles, parts \in NextParts :
         LET file_hit == contains_file(storage, file)
             requested == requested_bytes(parts)
             contained == contained_bytes(storage, file, parts)
             missing == requested - contained
             in_cache_bytes == stored_bytes(storage, file)
             ai == AccessInfo(file, parts, TRUE, contained, missing, 0, 0, in_cache_bytes, <<>>)
             r == process_access(policy, state, file, ind, FALSE, ai, trace_files)
         IN /\ hist' = [used_before |-> storage.used_bytes, file_before |-> file_hit,
                        evictions |-> <<>>]
            /\ IF missing = 0
               THEN /\ loc' = NoLoc
                    /\ IF r.raised
                       THEN /\ pc' = "raised"
                            /\ error' = r.error
                            /\ info' = NoInfo
                            /\ UNCHANGED state
                       ELSE /\ state' = r.state
                            /\ info' = ai
                            /\ UNCHANGED <<pc, error>>
               ELSE /\ pc' = "evicting"
                    /\ info' = NoInfo
                    /\ loc' = [ind |-> ind, file |-> file, parts |-> parts, file_hit |-> file_hit,
                               requested_bytes |-> requested, contained_bytes |-> contained,
                               missing_bytes |-> missing, in_cache_bytes |-> in_cache_bytes,
                               free_bytes |-> free_bytes(storage), evicted_files |-> <<>>,
                               evicted_bytes |-> 0, candidates |-> <<>>]
                    /\ UNCHANGED <<state, error>>
    /\ ind' = ind + 1
    /\ UNCHANGED <<driver, uniform, storage, call, policy, trace_files>>

\* the call of pop_eviction_candidates of one turn of "while free_bytes < missing_bytes"
PopCandidates ==
    /\ driver = "processor"
    /\ pc = "evicting"
    /\ loc.candidates = <<>>
    /\ loc.free_bytes < loc.missing_bytes
    /\ IF ~accepts_ts(policy)
       THEN /\ pc' = "raised"
            /\ error' = "TypeError"
            /\ UNCHANGED <<state, loc>>
       ELSE \E o \in pop_eviction_candidates(policy, state, loc) :
              /\ Len(loc.evicted_files) + Len(o.candidates) <= MaxEvicted
              /\ IF o.raised
                 THEN /\ pc' = "raised"
                      /\ error' = o.error
                      /\ UNCHANGED <<state, loc>>
                 ELSE /\ state' = o.state
                      /\ loc' = [loc EXCEPT !.candidates = o.candidates]
                      /\ UNCHANGED <<pc, error>>
    /\ UNCHANGED <<driver, uniform, storage, call, policy, ind, info, hist, trace_files>>

\* a variant of the self-eviction branch that keeps contained_bytes
self_evicted_keeps_contained(l) ==
    [l EXCEPT !.missing_bytes = l.requested_bytes, !.in_cache_bytes = 0]

\* a variant of the self-eviction branch that keeps in_cache_bytes
self_evicted_keeps_in_cache(l) ==
    [l EXCEPT !.contained_bytes = 0, !.missing_bytes = l.requested_bytes]

\* the self-eviction branch of the loop body, lines 117-127
self_evicted(l) ==
    [l EXCEPT !.contained_bytes = 0, !.missing_bytes = l.requested_bytes, !.in_cache_bytes = 0]

\* a variant of the bookkeeping that leaves evicted_bytes as it was
evicted_uncounted(l, eviction_candidate, evicted_file_bytes) ==
    [l EXCEPT !.candidates = Tail(l.candidates),
              !.evicted_files = Append(@, eviction_candidate),
              !.free_bytes = @ + evicted_file_bytes]

\* a variant of the bookkeeping that counts the evicted bytes twice
evicted_counted_twice(l, eviction_candidate, evicted_file_bytes) ==
    [l EXCEPT !.candidates = Tail(l.candidates),
              !.evicted_files = Append(@, eviction_candidate),
              !.evicted_bytes = @ + 2 * evicted_file_bytes,
              !.free_bytes = @ + evicted_file_bytes]

\* the bookkeeping after Storage.evict(eviction_candidate), lines 113-115
evicted(l, eviction_candidate, evicted_file_bytes) ==
    [l EXCEPT !.candidates = Tail(l.candidates),
              !.evicted_files = Append(@, eviction_candidate),
              !.evicted_bytes = @ + evicted_file_bytes,
              !.free_bytes = @ + evicted_file_bytes]

\* the body of "for eviction_candidate in ...", lines 111-127
EvictCandidate ==
    /\ driver = "processor"
    /\ pc = "evicting"
    /\ loc.candidates # <<>>
    /\ LET eviction_candidate == Head(loc.candidates)
           r == evict(storage, eviction_candidate)
           l == evicted(loc, eviction_candidate, r.ret)
       IN /\ storage' = r.storage
          /\ loc' = IF eviction_candidate = loc.file THEN self_evicted(l) ELSE l
          /\ hist' = [hist EXCEPT !.evictions = Append(@, <<eviction_candidate, r.ret>>)]
    /\ UNCHANGED <<driver, uniform, call, policy, state, ind, pc, info, error, trace_files>>

\* the ensure argument of the call of State.process_access, line 143
ensure_of(l) == l.in_cache_bytes = 0

\* _process_access after the eviction loop: lines 129-145
PlaceAccess ==
    /\ driver = "processor"
    /\ pc = "evicting"
    /\ loc.candidates = <<>>
    /\ ~(loc.free_bytes < loc.missing_bytes)
    /\ LET r == place(storage, loc.file, loc.parts)
           placed_bytes == r.ret
           total_bytes == loc.in_cache_bytes + placed_bytes
           ai == AccessInfo(loc.file, loc.parts, loc.file_hit, loc.contained_bytes,
                            loc.missing_bytes, placed_bytes, loc.evicted_bytes, total_bytes,
                            loc.evicted_files)
           pr == process_access(policy, state, loc.file, loc.ind, ensure_of(loc), ai, trace_files)
       IN IF r.raised
          THEN /\ pc' = "raised"
               /\ error' = "InsufficientFreeSpace"
               /\ UNCHANGED <<storage, state, info>>
          ELSE /\ storage' = r.storage
               /\ IF pr.raised
                  THEN /\ pc' = "raised"
                       /\ error' = pr.error
                       /\ UNCHANGED <<state, info>>
                  ELSE /\ pc' = "idle"
                       /\ state' = pr.state
                       /\ info' = ai
                       /\ UNCHANGED error
    /\ loc' = NoLoc
    /\ UNCHANGED <<driver, uniform, call, policy, ind, hist, trace_files>>

(***************************************************************************)
(* Several processors on the same trace.  Every access of the trace reads  *)
(* the same single part of the same size; a processor of each policy of    *)
(* Runners, each on a Storage of its own of the same capacity, processes   *)
(* the accesses in step.  _process_access is taken as a whole here: the    *)
(* set of outcomes of one call.                                            *)
(***************************************************************************)
NoUniform == [parts |-> <<>>, runs |-> <<>>]

\* what a _process_access call leaves: the exception or the AccessInfo
Outcome(raised, e, sto, st, ai) ==
    [raised |-> raised, error |-> e, storage |-> sto, state |-> st, info |-> ai]

\* _process_access from "while free_bytes < missing_bytes" on, lines 99-145
RECURSIVE eviction_loop(_, _, _, _, _)
eviction_loop(p, sto, st, l, files_seq) ==
    IF l.candidates # <<>>
    THEN LET eviction_candidate == Head(l.candidates)
             r == evict(sto, eviction_candidate)
             e == evicted(l, eviction_candidate, r.ret)
         IN eviction_loop(p, r.storage, st,
                          IF eviction_candidate = l.file THEN self_evicted(e) ELSE e, files_seq)
    ELSE IF l.free_bytes < l.missing_bytes
    THEN IF ~accepts_ts(p) THEN {Outcome(TRUE, "TypeError", sto, st, NoInfo)}
         ELSE UNION {IF o.raised THEN {Outcome(TRUE, o.error, sto, st, NoInfo)}
                     ELSE eviction_loop(p, sto, o.state, [l EXCEPT !.candidates = o.candidates],
                                        files_seq)
                       : o \in pop_eviction_candidates(p, st, l)}
    ELSE LET r == place(sto, l.file, l.parts)
             placed_bytes == r.ret
             total_bytes == l.in_cache_bytes + placed_bytes
             ai == AccessInfo(l.file, l.parts, l.file_hit, l.contained_bytes, l.missing_bytes,
                              placed_bytes, l.evicted_bytes, total_bytes, l.evicted_files)
             pr == process_access(p, st, l.file, l.ind, l.in_cache_bytes = 0, ai, files_seq)
         IN IF r.raised THEN {Outcome(TRUE, "InsufficientFreeSpace", sto, st, NoInfo)}
            ELSE IF pr.raised THEN {Outcome(TRUE, pr.error, r.storage, st, NoInfo)}
            ELSE {Outcome(FALSE, "", r.storage, pr.state, ai)}

\* StateDrivenProcessor._process_access(access), lines 71-145
processor_process_access(p, sto, st, i, file, parts, files_seq) ==
    LET file_hit == contains_file(sto, file)
        requested == requested_bytes(parts)
        contained == contained_bytes(sto, file, parts)
        missing == requested - contained
        in_cache_bytes == stored_bytes(sto, file)
        ai == AccessInfo(file, parts, TRUE, contained, missing, 0, 0, in_cache_bytes, <<>>)
        r == process_access(p, st, file, i, FALSE, ai, files_seq)
    IN IF missing = 0
       THEN IF r.raised THEN {Outcome(TRUE, r.error, sto, st, NoInfo)}
            ELSE {Outcome(FALSE, "", sto, r.state, ai)}
       ELSE eviction_loop(p, sto, st,
                [ind |-> i, file |-> file, parts |-> parts, file_hit |-> file_hit,
                 requested_bytes |-> requested, contained_bytes |-> contained,
                 missing_bytes |-> missing, in_cache_bytes |-> in_cache_bytes,
                 free_bytes |-> free_bytes(sto), evicted_files |-> <<>>,
                 evicted_bytes |-> 0, candidates |-> <<>>], files_seq)

\* the policies compared
Runners ==
    [MIN |-> [kind |-> "MIN", mode |-> ""], LRU |-> [kind |-> "LRU", mode |-> ""],
     FIFO |-> [kind |-> "FIFO", mode |-> ""],
     Landlord_TOTAL_SIZE |-> [kind |-> "Landlord", mode |-> "TOTAL_SIZE"],
     Landlord_NO_COST |-> [kind |-> "Landlord", mode |-> "NO_COST"]]

\* a processor of policy p constructed on a fresh Storage(total)
NewRun(p, total) ==
    [policy |-> p, storage |-> NewStorage(total), state |-> new_state(p), raised |-> FALSE,
     error |-> "", infos |-> <<>>]

\* the runs a processor may be in after the next access of the trace; an
\* exception ends the processor
StepRun(run) ==
    IF run.raised THEN {run}
    ELSE {IF o.raised
          THEN [run EXCEPT !.raised = TRUE, !.error = o.error, !.storage = o.storage]
          ELSE [run EXCEPT !.storage = o.storage, !.state = o.state,
                           !.infos = Append(@, o.info)]
            : o \in processor_process_access(run.policy, run.storage, run.state, ind,
                                             trace_files[ind + 1], uniform.parts, trace_files)}

\* every processor processes the next access of the trace
ProcessUniform ==
    /\ driver = "uniform"
    /\ ind < Len(trace_files)
    /\ \E a \in StepRun(uniform.runs.MIN), b \in StepRun(uniform.runs.LRU),
          c \in StepRun(uniform.runs.FIFO), d \in StepRun(uniform.runs.Landlord_TOTAL_SIZE),
          e \in StepRun(uniform.runs.Landlord_NO_COST) :
         uniform' = [uniform EXCEPT !.runs = [MIN |-> a, LRU |-> b, FIFO |-> c,
                                              Landlord_TOTAL_SIZE |-> d, Landlord_NO_COST |-> e]]
    /\ ind' = ind + 1
    /\ UNCHANGED <<driver, storage, call, policy, state, pc, loc, info, hist, error, trace_files>>

(***************************************************************************)
(* Direct calls of the methods of a policy state: GreedyDual.State         *)
(* (cache/algorithms/greedydual.py), MIND.State and MINCod.State           *)
(* (cache/algorithms/mind.py).  The state is called the way its own        *)
(* signatures ask for, in step with a Storage that has room for every      *)
(* file: access ind of the sequence places its part and                    *)
(* process_access(file, ind, ensure, info) gets the AccessInfo of it; the  *)
(* candidates of pop_eviction_candidates() are evicted from the Storage.   *)
(***************************************************************************)
\* Storage.evict of every file of a list
RECURSIVE EvictAll(_, _)
EvictAll(sto, files) ==
    IF files = <<>> THEN sto ELSE EvictAll(evict(sto, Head(files)).storage, Tail(files))

\* an access is placed and State.process_access(file, ind, ensure, info) is called
StateProcessAccess ==
    /\ driver = "state"
    /\ ind < MaxCalls
    /\ \E part \in PartInds, bytes \in 1..MaxPartBytes :
         LET file == trace_files[ind + 1]
             parts == <<<<part, bytes>>>>
             contained == contained_bytes(storage, file, parts)
             in_cache_bytes == stored_bytes(storage, file)
             r == place(storage, file, parts)
             ai == AccessInfo(file, parts, contains_file(storage, file), contained,
                              bytes - contained, r.ret, 0, in_cache_bytes + r.ret, <<>>)
             pr == process_access(policy, state, file, ind, in_cache_bytes = 0, ai, trace_files)
         IN /\ ~r.raised
            /\ storage' = r.storage
            /\ state' = pr.state
            /\ info' = ai
            /\ call' = [op |-> "process_access", file |-> file, parts |-> parts,
                        raised |-> pr.raised, ret |-> <<>>]
    /\ ind' = ind + 1
    /\ UNCHANGED <<driver, uniform, policy, pc, loc, hist, error, trace_files>>

\* State.pop_eviction_candidates() is called and its candidates are evicted
StatePopCandidates ==
    /\ driver = "state"
    /\ \E o \in pop_eviction_candidates(policy, state, NoLoc) :
         /\ state' = o.state
         /\ storage' = EvictAll(storage, o.candidates)
         /\ call' = [op |-> "pop_eviction_candidates", file |-> 0, parts |-> <<>>,
                     raised |-> o.raised, ret |-> o.candidates]
    /\ UNCHANGED <<driver, uniform, policy, ind, pc, loc, info, hist, error, trace_files>>

(***************************************************************************)
(* Direct calls of the operations of a FileLRUDict (dstructures/lru.py).   *)
(* state is the dict, ind counts the calls and hist[key] is the number of  *)
(* the call that last inserted or accessed the key.                        *)
(***************************************************************************)
LRUCall(op, file, raised, ret) ==
    [op |-> op, file |-> file, parts |-> <<>>, raised |-> raised, ret |-> ret]

\* d[file] = FileInfo(size)
LRUSetItem ==
    /\ driver = "lrudict"
    /\ ind < MaxOps
    /\ \E file \in FileIDs, size \in 1..MaxPartBytes :
         /\ state' = file_setitem(state, file, size)
         /\ hist' = IF InSeq(state.odict, file) THEN hist ELSE Put(hist, file, ind + 1)
         /\ call' = LRUCall("setitem", file, FALSE, <<>>)
    /\ ind' = ind + 1
    /\ UNCHANGED <<driver, uniform, storage, policy, pc, loc, info, error, trace_files>>

\* d.access(file): move_to_end raises KeyError for a key that is not in the dict
LRUAccess ==
    /\ driver = "lrudict"
    /\ ind < MaxOps
    /\ \E file \in FileIDs :
         IF InSeq(state.odict, file)
         THEN /\ state' = file_access(state, file)
              /\ hist' = Put(hist, file, ind + 1)
              /\ call' = LRUCall("access", file, FALSE, <<>>)
         ELSE /\ call' = LRUCall("access", file, TRUE, <<>>)
              /\ UNCHANGED <<state, hist>>
    /\ ind' = ind + 1
    /\ UNCHANGED <<driver, uniform, storage, policy, pc, loc, info, error, trace_files>>

\* del d[file]
LRUDelItem ==
    /\ driver = "lrudict"
    /\ ind < MaxOps
    /\ \E file \in FileIDs :
         IF InSeq(state.odict, file)
         THEN /\ state' = file_delitem(state, file)
              /\ hist' = Remove(hist, file)
              /\ call' = LRUCall("delitem", file, FALSE, <<>>)
         ELSE /\ call' = LRUCall("delitem", file, TRUE, <<>>)
              /\ UNCHANGED <<state, hist>>
    /\ ind' = ind + 1
    /\ UNCHANGED <<driver, uniform, storage, policy, pc, loc, info, error, trace_files>>

\* d.pop(): popitem raises KeyError for an empty dict
LRUPop ==
    /\ driver = "lrudict"
    /\ ind < MaxOps
    /\ IF state.odict # <<>>
       THEN /\ state' = file_pop(state).dict
            /\ hist' = Remove(hist, file_pop(state).key)
            /\ call' = LRUCall("pop", file_pop(state).key, FALSE,
                               <<file_pop(state).key, file_pop(state).size>>)
       ELSE /\ call' = LRUCall("pop", 0, TRUE, <<>>)
            /\ UNCHANGED <<state, hist>>
    /\ ind' = ind + 1
    /\ UNCHANGED <<driver, uniform, storage, policy, pc, loc, info, error, trace_files>>

\* d.add_bytes_to_file(file, number_of_bytes): self[file] raises KeyError
LRUAddBytes ==
    /\ driver = "lrudict"
    /\ ind < MaxOps
    /\ \E file \in FileIDs, number_of_bytes \in 1..MaxPartBytes :
         IF InSeq(state.odict, file)
         THEN /\ state' = add_bytes_to_file(state, file, number_of_bytes)
              /\ call' = LRUCall("add_bytes_to_file", file, FALSE, <<>>)
         ELSE /\ call' = LRUCall("add_bytes_to_file", file, TRUE, <<>>)
              /\ UNCHANGED state
    /\ ind' = ind + 1
    /\ UNCHANGED <<driver, uniform, storage, policy, pc, loc, info, hist, error, trace_files>>

\* d.remove_bytes_to_file(file, number_of_bytes), of bytes the file has
LRURemoveBytes ==
    /\ driver = "lrudict"
    /\ ind < MaxOps
    /\ \E file \in FileIDs, number_of_bytes \in 1..MaxPartBytes :
         IF InSeq(state.odict, file)
         THEN /\ number_of_bytes <= state.size[file]
              /\ state' = remove_bytes_to_file(state, file, number_of_bytes)
              /\ call' = LRUCall("remove_bytes_to_file", file, FALSE, <<>>)
         ELSE /\ call' = LRUCall("remove_bytes_to_file", file, TRUE, <<>>)
              /\ UNCHANGED state
    /\ ind' = ind + 1
    /\ UNCHANGED <<driver, uniform, storage, policy, pc, loc, info, hist, error, trace_files>>

(***************************************************************************)
(* Direct calls of the Storage operations.                                 *)
(***************************************************************************)
NoCall == [op |-> "none", file |-> 0, parts |-> <<>>, raised |-> FALSE, ret |-> 0]

procvars == <<policy, state, ind, pc, loc, info, hist, error, trace_files>>

StoragePlace ==
    /\ driver = "storage"
    /\ \E file \in FileIDs, parts \in PartLists :
         LET r == place(storage, file, parts)
         IN /\ storage' = r.storage
            /\ call' = [op |-> "place", file |-> file, parts |-> parts,
                        raised |-> r.raised, ret |-> r.ret]
    /\ UNCHANGED <<driver, uniform, procvars>>

StorageEvict ==
    /\ driver = "storage"
    /\ \E file \in FileIDs :
         LET r == evict(storage, file)
         IN /\ storage' = r.storage
            /\ call' = [op |-> "evict", file |-> file, parts |-> <<>>,
                        raised |-> FALSE, ret |-> r.ret]
    /\ UNCHANGED <<driver, uniform, procvars>>

StorageEvictPartially ==
    /\ driver = "storage"
    /\ \E file \in FileIDs, fraction \in Fractions, parts \in PartsArgs :
         LET r == evict_partially(storage, file, fraction, parts)
         IN /\ storage' = r.storage
            /\ call' = [op |-> "evict_partially", file |-> file, parts |-> <<>>,
                        raised |-> r.raised, ret |-> r.ret]
    /\ UNCHANGED <<driver, uniform, procvars>>

vars ==
    <<driver, storage, call, policy, state, ind, pc, loc, info, hist, error, trace_files, uniform>>

\* what every construction starts from: Storage(total_bytes), nothing processed
InitCommon ==
    /\ \E total \in 0..MaxCapacity : storage = NewStorage(total)
    /\ call = NoCall
    /\ ind = 0
    /\ pc = "idle"
    /\ loc = NoLoc
    /\ info = NoInfo
    /\ hist = NoHist
    /\ error = ""
    /\ uniform = NoUniform

\* a Storage that is called directly
InitStorage ==
    /\ InitCommon
    /\ driver = "storage"
    /\ policy = [kind |-> "none", mode |-> ""]
    /\ state = init_state
    /\ trace_files = <<>>

\* a processor of some policy constructed on a fresh Storage
InitProcessor ==
    /\ InitCommon
    /\ driver = "processor"
    /\ policy \in Policies
    /\ state = new_state(policy)
    /\ trace_files \in (IF Offline(policy) THEN [1..TraceLen -> FileIDs] ELSE {<<>>})

\* an ARC-bit processor constructed on a fresh Storage
InitARC ==
    /\ \E total \in (ARCCapacity - 1)..ARCCapacity, ghosts_factor \in GhostsFactors :
         /\ storage = NewStorage(total)
         /\ policy = [kind |-> "ARCBit", mode |-> ghosts_factor]
         /\ state = ARCBitState(total, ghosts_factor)
    /\ driver = "processor"
    /\ trace_files = <<>>
    /\ call = NoCall
    /\ ind = 0
    /\ pc = "idle"
    /\ loc = NoLoc
    /\ info = NoInfo
    /\ hist = NoHist
    /\ error = ""
    /\ uniform = NoUniform

\* processors of the policies of Runners on storages of one capacity, and a
\* trace that reads the same part of the same size with every access
InitUniform ==
    /\ driver = "uniform"
    /\ \E total \in 0..UniformCapacity, bytes \in 1..MaxPartBytes :
         /\ storage = NewStorage(total)
         /\ uniform = [parts |-> <<<<0, bytes>>>>,
                       runs |-> [n \in DOMAIN Runners |-> NewRun(Runners[n], total)]]
    /\ trace_files \in [1..UniformLen -> 1..UniformFiles]
    /\ policy = [kind |-> "none", mode |-> ""]
    /\ state = init_state
    /\ call = NoCall
    /\ ind = 0
    /\ pc = "idle"
    /\ loc = NoLoc
    /\ info = NoInfo
    /\ hist = NoHist
    /\ error = ""

\* the State of a policy that is called directly, the files of the accesses
\* it is going to see, and a Storage that has room for every file
InitState ==
    /\ driver = "state"
    /\ policy \in StatePolicies
    /\ state = new_state(policy)
    /\ storage = NewStorage(NumFiles * 2 * MaxPartBytes)
    /\ uniform = NoUniform
    /\ trace_files \in [1..MaxCalls -> FileIDs]
    /\ call = NoCall
    /\ ind = 0
    /\ pc = "idle"
    /\ loc = NoLoc
    /\ info = NoInfo
    /\ hist = NoHist
    /\ error = ""

Init == InitStorage \/ InitProcessor

NextStorage ==
    \/ StoragePlace
    \/ StorageEvict
    \/ StorageEvictPartially

NextProcessor ==
    \/ BeginAccess
    \/ PopCandidates
    \/ EvictCandidate
    \/ PlaceAccess

Next == NextStorage \/ NextProcessor

\* direct Storage calls and processors alike
Spec == Init /\ [][Next]_vars
\* direct Storage calls only
SpecStorage == InitStorage /\ [][NextStorage]_vars
\* processors only
SpecProcessor == InitProcessor /\ [][NextProcessor]_vars
\* processors of several policies on the same uniform-size trace
SpecUniform == InitUniform /\ [][ProcessUniform]_vars
\* direct calls of a policy state
NextState == StateProcessAccess \/ StatePopCandidates
SpecState == InitState /\ [][NextState]_vars

\* ARC-bit processors only
SpecARC == InitARC /\ [][NextProcessor]_vars

\* FileLRUDict()
InitLRUDict ==
    /\ driver = "lrudict"
    /\ state = FileLRUDict
    /\ hist = EmptyMap
    /\ policy = [kind |-> "Any", mode |-> ""]
    /\ storage = NewStorage(0)
    /\ uniform = NoUniform
    /\ trace_files = <<>>
    /\ call = NoCall
    /\ ind = 0
    /\ pc = "idle"
    /\ loc = NoLoc
    /\ info = NoInfo
    /\ error = ""

NextLRUDict ==
    \/ LRUSetItem
    \/ LRUAccess
    \/ LRUDelItem
    \/ LRUPop
    \/ LRUAddBytes
    \/ LRURemoveBytes

\* direct calls of a FileLRUDict
SpecLRUDict == InitLRUDict /\ [][NextLRUDict]_vars


(***************************************************************************)
(* Properties of Storage and of the accesses a processor has processed.    *)
(* info.valid holds exactly in the states right after _process_access has  *)
(* returned: storage is then the storage after the access, and hist holds  *)
(* what was observed of that access from outside.                          *)
(***************************************************************************)
\* the sum of the sizes in a part list
RECURSIVE SizeSum(_)
SizeSum(parts) ==
    IF parts = <<>> THEN 0 ELSE parts[1][2] + SizeSum(Tail(parts))

\* the sum over all stored files and all their parts of the stored part size
RECURSIVE StoredTotal(_)
StoredTotal(fs) ==
    IF DOMAIN fs = {} THEN 0
    ELSE LET f == CHOOSE x \in DOMAIN fs : TRUE
         IN SumValues(fs[f]) + StoredTotal(Remove(fs, f))

\* the sum of the bytes Storage.evict returned during the latest access
RECURSIVE SumReturned(_)
SumReturned(evictions) ==
    IF evictions = <<>> THEN 0 ELSE evictions[1][2] + SumReturned(Tail(evictions))

\* the part indices a part list names, and the largest size it names for one
NamedInds(parts) == {parts[i][1] : i \in 1..Len(parts)}
LargestNamed(parts, p) ==
    CHOOSE s \in {parts[i][2] : i \in {j \in 1..Len(parts) : parts[j][1] = p}} :
      \A i \in 1..Len(parts) : parts[i][1] = p => parts[i][2] <= s

\* the parts of a file as a map, empty when the file is not stored
PartsOf(s, file) == IF file \in DOMAIN s.files THEN s.files[file] ELSE EmptyMap

\* C1: every AccessInfo a processor returns has bytes_hit + bytes_missed equal
\* to the sum of the sizes in access.parts, whichever path produced it
C1_HitPlusMissedIsRequested ==
    info.valid => info.bytes_hit + info.bytes_missed = SizeSum(info.parts)

\* an access has completed during which the accessed file itself was evicted
C1_SelfEvictedAccessCompleted ==
    /\ info.valid
    /\ InSeq(info.evicted_files, info.file)
    /\ info.bytes_missed > 0

\* C2: used_bytes is the sum of the stored part sizes after any sequence of
\* place, evict and evict_partially calls with any part lists
C2_UsedIsStoredSum == storage.used_bytes = StoredTotal(storage.files)

\* C3: used_bytes stays within 0..total_bytes after every Storage operation
\* and every processed access
C3_UsedWithinCapacity ==
    0 <= storage.used_bytes /\ storage.used_bytes <= storage.total_bytes

\* a place call was refused on a full storage of positive capacity
C3_PlaceRefusedOnFullStorage ==
    /\ call.op = "place"
    /\ call.raised
    /\ storage.total_bytes > 0
    /\ storage.used_bytes = storage.total_bytes

\* C4: used_bytes after an access is used_bytes before it + bytes_added -
\* bytes_removed; bytes_removed is the sum of what Storage.evict returned and
\* evicted_files lists the evicted candidates in the order of their eviction
C4_UsedBytesBalance ==
    info.valid =>
      /\ storage.used_bytes = hist.used_before + info.bytes_added - info.bytes_removed
      /\ info.bytes_removed = SumReturned(hist.evictions)
      /\ info.evicted_files = [i \in 1..Len(hist.evictions) |-> hist.evictions[i][1]]

\* an access has completed that evicted two files holding bytes, one after
\* the other, and placed bytes
C4_AccessEvictedTwoFiles ==
    /\ info.valid
    /\ Len(info.evicted_files) = 2
    /\ info.evicted_files[1] # info.evicted_files[2]
    /\ \A i \in 1..Len(hist.evictions) : hist.evictions[i][2] > 0
    /\ info.bytes_added > 0

\* C5: bytes_added equals bytes_missed for every processed access, and is the
\* full requested size when the accessed file was evicted during the access
C5_AddedIsMissed ==
    info.valid =>
      /\ info.bytes_added = info.bytes_missed
      /\ InSeq(info.evicted_files, info.file) => info.bytes_added = SizeSum(info.parts)

\* an access has completed that hit some of its bytes and placed the others
C5_PartialHitCompleted ==
    /\ info.valid
    /\ info.bytes_hit > 0
    /\ info.bytes_added > 0

\* C6: file_hit of a processed access is true if and only if the storage
\* contained the accessed file immediately before the access
C6_FileHitIffContainedBefore ==
    info.valid => (info.file_hit <=> hist.file_before)

\* C7: total_bytes of a processed access is the sum of the stored part sizes
\* of the accessed file after the access
C7_TotalBytesIsStoredSize ==
    info.valid => info.total_bytes = stored_bytes(storage, info.file)

\* a step is a direct Storage.place call that returned
PlaceReturned == driver = "storage" /\ call'.op = "place" /\ ~call'.raised

\* what a returned place call leaves alone and what it returns: the parts of
\* the file it does not name, every other file, and missing_bytes as evaluated
\* before the call, by which used_bytes has grown
PlaceFrame ==
    /\ \A p \in PartInds \ NamedInds(call'.parts) :
         /\ p \in DOMAIN PartsOf(storage', call'.file) <=> p \in DOMAIN PartsOf(storage, call'.file)
         /\ Get(PartsOf(storage', call'.file), p) = Get(PartsOf(storage, call'.file), p)
    /\ \A g \in FileIDs \ {call'.file} :
         /\ contains_file(storage', g) <=> contains_file(storage, g)
         /\ PartsOf(storage', g) = PartsOf(storage, g)
    /\ call'.ret = missing_bytes(storage, call'.file, call'.parts)
    /\ storage'.used_bytes - storage.used_bytes = call'.ret

\* C8 as stated: a successful place(f, parts) sets, for each (p, s) in parts,
\* the stored size of part p of f to max(previously stored size or 0, s),
\* leaves the other parts and files unchanged and returns missing_bytes as
\* evaluated before the call, the growth of used_bytes
C8_PlaceSetsEachEntryToMax ==
    [][PlaceReturned =>
         /\ \A i \in 1..Len(call'.parts) :
              LET p == call'.parts[i][1]
                  s == call'.parts[i][2]
              IN /\ p \in DOMAIN PartsOf(storage', call'.file)
                 /\ PartsOf(storage', call'.file)[p] = Max(Get(PartsOf(storage, call'.file), p), s)
         /\ PlaceFrame]_vars

\* C8, amended: a successful place(f, parts) sets, for each part index p that
\* parts names, the stored size of part p of f to max(previously stored size
\* or 0, the largest size parts names for p), leaves the other parts and
\* files unchanged and returns missing_bytes as evaluated before the call,
\* the growth of used_bytes
C8_PlaceSetsEachPartToLargest ==
    [][PlaceReturned =>
         /\ \A p \in NamedInds(call'.parts) :
              /\ p \in DOMAIN PartsOf(storage', call'.file)
              /\ PartsOf(storage', call'.file)[p]
                   = Max(Get(PartsOf(storage, call'.file), p), LargestNamed(call'.parts, p))
         /\ PlaceFrame]_vars

\* a place call has returned after adding bytes for two different parts
\* while another file is stored
C8_PlaceAddedTwoParts ==
    /\ call.op = "place"
    /\ ~call.raised
    /\ call.ret > 1
    /\ Len(call.parts) = 2
    /\ call.parts[1][1] # call.parts[2][1]
    /\ \E g \in FileIDs \ {call.file} : contains_file(storage, g)

\* C9: place raises InsufficientFreeSpace exactly when missing_bytes exceeds
\* free_bytes and then leaves the storage unchanged; the place call inside
\* _process_access never raises
C9_PlaceRaisesOnlyWithoutRoom ==
    [][/\ (driver = "storage" /\ call'.op = "place") =>
            /\ call'.raised <=>
                 missing_bytes(storage, call'.file, call'.parts) > free_bytes(storage)
            /\ call'.raised => storage' = storage
       /\ error' # "InsufficientFreeSpace"]_vars

\* a place call was refused on a storage that holds a file, with room left
\* for a smaller request
C9_PlaceRefused ==
    /\ call.op = "place"
    /\ call.raised
    /\ storage.files # EmptyMap
    /\ free_bytes(storage) > 0

\* C10: after every completed access of a processor running LRU, FIFO, MCF,
\* Size, MIN, GreedyDual or Landlord, the files the policy state tracks are
\* the files the storage contains
C10_TrackedIsStored ==
    (info.valid /\ policy.kind \in {"LRU", "FIFO", "MCF", "Size", "MIN", "GreedyDual", "Landlord"})
      => tracked_files(policy, state) = DOMAIN storage.files

\* C11: every call of pop_eviction_candidates the processor makes, which it makes
\* only while free_bytes < missing_bytes, either raises or returns at least one
\* file, whatever the policy.
C11_PopRaisesOrReturnsCandidate ==
    [][(pc = "evicting" /\ loc.candidates = <<>> /\ loc.free_bytes < loc.missing_bytes)
         => (pc' = "raised" \/ loc'.candidates # <<>>)]_vars


\* C12: an access that misses more bytes than the storage holds when empty ends
\* with an error raised out of pop_eviction_candidates once the policy has no
\* file left to offer: place is never attempted for it and no AccessInfo is
\* emitted, so the loop is left only by the raise, and at the raise the policy
\* tracks no file.
C12_OversizedAccessRaisesOnceEmpty ==
    [][(pc = "evicting" /\ loc.missing_bytes > storage.total_bytes)
         => /\ pc' \in {"evicting", "raised"}
            /\ ~info'.valid
            /\ storage'.used_bytes <= storage.used_bytes
            /\ pc' = "raised" => tracked_files(policy, state) = {}]_vars


\* C13 as stated: for every processed access bytes_added + bytes_removed is at
\* most free_bytes + used_bytes of the storage before the access, the capacity.
C13_AddedPlusRemovedWithinCapacity ==
    info.valid => info.bytes_added + info.bytes_removed <= storage.total_bytes

\* C13 amended: for every processed access bytes_removed is at most used_bytes
\* before the access, and bytes_added is at most free_bytes before the access
\* plus bytes_removed.
C13_AddedWithinFreedRoom ==
    info.valid =>
        /\ info.bytes_removed <= hist.used_before
        /\ info.bytes_added <= (storage.total_bytes - hist.used_before) + info.bytes_removed

\* an access was processed that removed bytes and added bytes
C13_AccessEvictedAndPlaced ==
    info.valid /\ info.bytes_removed > 0 /\ info.bytes_added > 0


\* C14: in the LRU processor every eviction candidate is the cached file whose
\* most recent access is the oldest: while LRU tracks a file, a call of
\* pop_eviction_candidates hands the loop the last file of the LRU order, the
\* file accessed least recently.
C14_LRUEvictsLeastRecent ==
    [][(policy.kind = "LRU" /\ pc = "evicting" /\ loc.candidates = <<>>
          /\ loc.free_bytes < loc.missing_bytes /\ state.lru # <<>>)
         => (pc' = "evicting" /\ loc'.candidates = <<state.lru[Len(state.lru)]>>)]_vars

\* C15: in the FIFO processor every eviction candidate is the cached file that
\* entered the cache earliest: while FIFO tracks a file, a call of
\* pop_eviction_candidates hands the loop the last file of the insertion order,
\* which hits and partial-growth misses of a tracked file leave as it is.
C15_FIFOEvictsEarliestInserted ==
    [][/\ (policy.kind = "FIFO" /\ pc = "evicting" /\ loc.candidates = <<>>
             /\ loc.free_bytes < loc.missing_bytes /\ state.lru # <<>>)
            => (pc' = "evicting" /\ loc'.candidates = <<state.lru[Len(state.lru)]>>)
       /\ (policy.kind = "FIFO" /\ info'.valid /\ InSeq(state.lru, info'.file))
            => state'.lru = state.lru]_vars


\* the index of the first access to file at or after access i of the trace, and
\* Len(trace_files) when there is none: the next use of a stored file when
\* access i is being processed, every later "never" counting as the same
NextUse(file, i) ==
    LET later == {j \in i..(Len(trace_files) - 1) : trace_files[j + 1] = file}
    IN IF later = {} THEN Len(trace_files) ELSE CHOOSE j \in later : \A k \in later : j <= k

\* C16: in the MIN processor every eviction candidate is the cached file whose
\* next use in the trace lies farthest in the future, files never accessed
\* again counting as infinity.
C16_MINEvictsFarthestNextUse ==
    [][(policy.kind = "MIN" /\ pc = "evicting" /\ loc.candidates = <<>> /\ pc' = "evicting"
          /\ loc.free_bytes < loc.missing_bytes)
         => /\ Len(loc'.candidates) = 1
            /\ contains_file(storage, loc'.candidates[1])
            /\ \A f \in FileIDs : contains_file(storage, f)
                  => NextUse(f, loc.ind) <= NextUse(loc'.candidates[1], loc.ind)]_vars


\* the bytes a processor has hit so far
RECURSIVE HitBytes(_)
HitBytes(infos) == IF infos = <<>> THEN 0 ELSE Head(infos).bytes_hit + HitBytes(Tail(infos))

\* the capacity holds the part every access of the trace reads
EveryFileFits == uniform.parts[1][2] <= storage.total_bytes

\* the processor of policy n has neither raised nor an access left
Processed(n) == ~uniform.runs[n].raised /\ Len(uniform.runs[n].infos) = Len(trace_files)

\* C17: on a trace whose accesses all read one part of the same size, and for
\* every capacity, the MIN, the LRU and the FIFO processor process the trace
\* (when the capacity holds a file) and the bytes hit by MIN are at least the
\* bytes hit by LRU and at least the bytes hit by FIFO.
C17_MINHitsAtLeastLRUAndFIFO ==
    (ind = Len(trace_files) /\ EveryFileFits) =>
        /\ Processed("MIN") /\ Processed("LRU") /\ Processed("FIFO")
        /\ HitBytes(uniform.runs.MIN.infos) >= HitBytes(uniform.runs.LRU.infos)
        /\ HitBytes(uniform.runs.MIN.infos) >= HitBytes(uniform.runs.FIFO.infos)

\* C18: on a trace whose files all have the same size, a Landlord processor in
\* TOTAL_SIZE mode and an LRU processor of the same capacity evict the same
\* files at the same accesses: after every access their AccessInfo sequences
\* are identical, and neither stops before the end of the trace when the
\* capacity holds a file.
C18_LandlordTotalSizeIsLRU ==
    /\ uniform.runs.Landlord_TOTAL_SIZE.infos = uniform.runs.LRU.infos
    /\ EveryFileFits =>
          /\ Len(uniform.runs.LRU.infos) = ind
          /\ Len(uniform.runs.Landlord_TOTAL_SIZE.infos) = ind

\* C19: on a trace whose files all have the same size, a Landlord processor in
\* NO_COST mode and a FIFO processor of the same capacity evict the same files
\* at the same accesses: after every access their AccessInfo sequences are
\* identical, and neither stops before the end of the trace when the capacity
\* holds a file.
C19_LandlordNoCostIsFIFO ==
    /\ uniform.runs.Landlord_NO_COST.infos = uniform.runs.FIFO.infos
    /\ EveryFileFits =>
          /\ Len(uniform.runs.FIFO.infos) = ind
          /\ Len(uniform.runs.Landlord_NO_COST.infos) = ind


C21_SurvivorsKeepCredit ==
    [][(policy.kind = "GreedyDual" /\ call'.op = "pop_eviction_candidates" /\ ~call'.raised)
         => /\ state'.threshold = state.pq[call'.ret[1]]
            /\ \A f \in DOMAIN state'.pq :
                  ~QLess(QSub(state'.pq[f], state'.threshold), Num(0))]_vars

\* an eviction from GreedyDual left a file in the queue whose value is above
\* the new threshold
C21_EvictedWithSurvivor ==
    /\ policy.kind = "GreedyDual" /\ call.op = "pop_eviction_candidates" /\ ~call.raised
    /\ \E f \in DOMAIN state.pq : QLess(state.threshold, state.pq[f])


\* C22: after GreedyDual.State.process_access for a file, the value of the file
\* in the queue is max(current_credit, cost) + threshold, where current_credit
\* is the previous value of the file minus threshold (0 for a new file) and
\* cost is the total cached bytes of the file in TOTAL_SIZE mode and the
\* requested bytes in ACCESS_SIZE mode.
C22_ValueIsMaxCreditPlusThreshold ==
    [][(policy.kind = "GreedyDual" /\ call'.op = "process_access" /\ ~call'.raised)
         => LET file == call'.file
                current_credit == IF file \in DOMAIN state.pq
                                  THEN QSub(state.pq[file], state.threshold) ELSE Num(0)
                cost == IF policy.mode = "TOTAL_SIZE" THEN Num(info'.total_bytes)
                        ELSE Num(info'.bytes_hit + info'.bytes_missed)
            IN state'.pq[file] = QAdd(QMax(current_credit, cost), state.threshold)]_vars


\* the files the Storage holds
Cached == {f \in FileIDs : contains_file(storage, f)}

\* the sets of d cached files with the largest next use before access i
Farthest(d, i) ==
    {T \in SUBSET Cached :
        /\ Cardinality(T) = Min(Max(d, 1), Cardinality(Cached))
        /\ \A t \in T, u \in Cached \ T : NextUse(u, i) <= NextUse(t, i)}

\* d_factor * n rounded down and rounded up
Scaled(d_factor, n) ==
    {(d_factor[1] * n) \div d_factor[2], (d_factor[1] * n + d_factor[2] - 1) \div d_factor[2]}

\* C23: the eviction candidate of MIN-d is the file of the smallest size among
\* the d cached files with the largest next-use index, where d is d_factor
\* times the number of cached files, raised to min_d and capped at max_d.
C23_MINDEvictsSmallestOfFarthest ==
    [][(policy.kind = "MIND" /\ call'.op = "pop_eviction_candidates" /\ ~call'.raised)
         => LET cfg == MINDConfiguration(policy.mode)
                candidate == call'.ret[1]
            IN \E d0 \in Scaled(cfg.d_factor, Cardinality(Cached)) :
                 LET d1 == IF cfg.min_d # <<>> THEN Max(cfg.min_d[1], d0) ELSE d0
                     d == IF cfg.max_d # <<>> THEN Min(cfg.max_d[1], d1) ELSE d1
                 IN \E T \in Farthest(d, ind) :
                      /\ candidate \in T
                      /\ \A t \in T : stored_bytes(storage, candidate) <= stored_bytes(storage, t)]_vars

\* the size of a cached file over its next use before access i, 0 when it is
\* never used again
CostOverDistance(f, i) ==
    IF NextUse(f, i) = Len(trace_files) THEN Num(0)
    ELSE Frac(stored_bytes(storage, f), NextUse(f, i))

\* C24: the eviction candidate of MIN-cod is a tracked file whose ratio of size
\* to next-use index is minimal over all tracked files, a file never used
\* again having ratio 0, with one queue for every size and with size classes
\* and their early termination alike.
C24_MINCodEvictsMinimalRatio ==
    [][(policy.kind = "MINCod" /\ call'.op = "pop_eviction_candidates" /\ ~call'.raised)
         => /\ Len(call'.ret) = 1
            /\ call'.ret[1] \in tracked_files(policy, state)
            /\ tracked_files(policy, state) = Cached
            /\ tracked_files(policy, state') = Cached \ {call'.ret[1]}
            /\ \A f \in Cached :
                  ~QLess(CostOverDistance(f, ind), CostOverDistance(call'.ret[1], ind))]_vars

\* MIN-cod with size classes evicted a file that is used again and left a
\* file in the cache: the candidate had the smaller ratio of the two
C24_EvictedReusedFile ==
    /\ policy.kind = "MINCod" /\ policy.mode # "exact"
    /\ call.op = "pop_eviction_candidates" /\ ~call.raised
    /\ NextUse(call.ret[1], ind) < Len(trace_files)
    /\ Cached # {}


\* the classes of OBMA that contain files
Occupied(classes) == {i \in 1..Len(classes) : DOMAIN classes[i].pq # {}}

\* C25: every call of OBMA.State.pop_eviction_candidates with
\* required_free_bytes = b > 0 on a cache that is not empty evicts at least b
\* bytes from the class of the smallest sizes that contains files.
C25_OBMAEvictsRequiredFromSmallestClass ==
    [][(policy.kind = "OBMA" /\ pc = "evicting" /\ loc.candidates = <<>>
          /\ loc.free_bytes < loc.missing_bytes /\ Occupied(state.classes) # {}
          /\ pc' = "evicting")
         => LET smallest == CHOOSE i \in Occupied(state.classes) :
                               \A j \in Occupied(state.classes) : i <= j
            IN state.classes[smallest].total_size - state'.classes[smallest].total_size
                 >= loc.missing_bytes - loc.free_bytes]_vars


\* C29: LRUDict.pop() returns the key whose last insertion or access is the
\* oldest of the dict, after any sequence of __setitem__, access, __delitem__
\* and pop: __setitem__ puts a new key at the most recent end as access()
\* does, so a key just inserted is never popped while an older key remains.
C29_PopReturnsOldest ==
    [][(driver = "lrudict" /\ call'.op = "pop" /\ ~call'.raised)
         => \A k \in DOMAIN hist : hist[call'.file] <= hist[k]]_vars

\* C30: total_size of a FileLRUDict is the sum of the sizes of its values after
\* any sequence of __setitem__ (assignment to a present key included),
\* __delitem__, pop, add_bytes_to_file and remove_bytes_to_file.
C30_TotalSizeIsSumOfSizes ==
    driver = "lrudict" => state.total_size = SumValues(state.size)


\* the size ARC-bit tracks for a file in T1 and T2
TrackedSize(a, f) ==
    (IF InSeq(a.top_once.odict, f) THEN a.top_once.size[f] ELSE 0)
      + (IF InSeq(a.top_multiple.odict, f) THEN a.top_multiple.size[f] ELSE 0)

\* C26: in ARC-bit, after every processed access the sizes of T1 and T2
\* together are at most total_size (invariant 1 of _verify), and the tracked
\* sizes equal the bytes held in the Storage.
C26_TopSizesAreStoredBytes ==
    (policy.kind = "ARCBit" /\ pc = "idle" /\ info.valid)
      => /\ state.top_once.total_size + state.top_multiple.total_size <= state.total_size
         /\ state.top_once.total_size + state.top_multiple.total_size = StoredTotal(storage.files)
         /\ \A f \in 1..ARCFiles : TrackedSize(state, f) = stored_bytes(storage, f)

\* C27: in ARC-bit the ghost lists B1 and B2 together hold at most
\* ghosts_factor * total_size bytes after every processed access, and the
\* trimming loop of _evict never pops from an empty ghost list.
C27_GhostsBoundedAndTrimmed ==
    policy.kind = "ARCBit"
      => /\ error # "KeyError: _bottom_multiple.pop()"
         /\ pc = "idle"
              => (state.bottom_once.total_size + state.bottom_multiple.total_size) * policy.mode[2]
                   <= policy.mode[1] * state.total_size

\* C28: in ARC-bit a ghost hit in B1 never decreases the target size of T1 and
\* a ghost hit in B2 never increases it, and the target stays within
\* [0, total_size].
C28_GhostHitsMoveTargetOneWay ==
    [][(policy.kind = "ARCBit" /\ pc = "evicting")
         => LET file == loc.file
                in_top == InSeq(state.top_once.odict, file) \/ InSeq(state.top_multiple.odict, file)
                in_bottom_once == InSeq(state.bottom_once.odict, file)
                in_bottom_multiple == InSeq(state.bottom_multiple.odict, file)
            IN /\ (~in_top /\ in_bottom_once)
                    => state'.top_once_target_size >= state.top_once_target_size
               /\ (~in_top /\ ~in_bottom_once /\ in_bottom_multiple)
                    => state'.top_once_target_size <= state.top_once_target_size
               /\ state'.top_once_target_size \in 0..state.total_size]_vars

(***************************************************************************)
(* EventMerger over the AccessInfo streams of the processors of an         *)
(* OfflineCacheSystem.  An event is named by its stream and its position   *)
(* in the stream; its key is its access_ts.                                *)
(***************************************************************************)
\* number of streams (processors) an EventMerger is given
NumStreams == 2
\* a stream holds up to this many events
MaxStreamLen == 3
\* access_ts ranges over 1..MaxTs
MaxTs == 3

\* the access_ts sequences a stream may have
StreamsOfTs == UNION {[1..n -> 1..MaxTs] : n \in 0..MaxStreamLen}

\* a variant of the heap order: the entry pushed last
heap_newest(heap) == CHOOSE e \in heap : \A o \in heap : e.index >= o.index

\* self._heap[0]: the least (key, event_index, ...) tuple of the heap
heap_top(heap) ==
    CHOOSE e \in heap : \A o \in heap : e.ts < o.ts \/ (e.ts = o.ts /\ e.index <= o.index)

\* the heap entry (key(ev), event_index, ev, it) of the event at pos of stream
HeapEntry(streams, stream, pos, event_index) ==
    [ts |-> streams[stream][pos], index |-> event_index, stream |-> stream, pos |-> pos]

\* EventMerger._push_next(it) for the iterator of stream
push_next(m, stream) ==
    IF Len(m.streams[stream]) = 0 THEN m
    ELSE [m EXCEPT !.heap = @ \cup {HeapEntry(m.streams, stream, 1, m.event_index)},
                   !.event_index = @ + 1]

\* the loop of EventMerger.__init__ over the streams from stream on
RECURSIVE push_streams(_, _)
push_streams(m, stream) ==
    IF stream > Len(m.streams) THEN m
    ELSE push_streams(push_next(m, stream), stream + 1)

\* EventMerger(streams, key)
EventMerger(streams) ==
    push_streams([streams |-> streams, heap |-> {}, event_index |-> 0], 1)

\* EventMerger.__next__ after the top entry ev was read: heapreplace with the
\* next event of ev's iterator, heappop when the iterator is exhausted
merger_advance(m, ev) ==
    IF ev.pos < Len(m.streams[ev.stream])
    THEN [m EXCEPT !.heap = (@ \ {ev})
                              \cup {HeapEntry(m.streams, ev.stream, ev.pos + 1, m.event_index)},
                   !.event_index = @ + 1]
    ELSE [m EXCEPT !.heap = @ \ {ev}]

\* next(merger) returning an event; hist is the sequence of the events emitted
MergerNext ==
    /\ driver = "merger"
    /\ state.heap # {}
    /\ state' = merger_advance(state, heap_top(state.heap))
    /\ hist' = Append(hist, heap_top(state.heap))
    /\ call' = [NoCall EXCEPT !.op = "next"]
    /\ UNCHANGED <<driver, uniform, storage, policy, ind, pc, loc, info, error, trace_files>>

\* next(merger) on an empty heap raises StopIteration
MergerStop ==
    /\ driver = "merger"
    /\ state.heap = {}
    /\ call.op # "stop"
    /\ call' = [NoCall EXCEPT !.op = "stop", !.raised = TRUE]
    /\ UNCHANGED <<driver, uniform, storage, policy, state, ind, pc, loc, info, hist, error,
                   trace_files>>

InitMerger ==
    /\ driver = "merger"
    /\ \E streams \in [1..NumStreams -> StreamsOfTs] : state = EventMerger(streams)
    /\ hist = <<>>
    /\ storage = NewStorage(0)
    /\ policy = [kind |-> "Any", mode |-> ""]
    /\ uniform = NoUniform
    /\ trace_files = <<>>
    /\ call = NoCall
    /\ ind = 0
    /\ pc = "idle"
    /\ loc = NoLoc
    /\ info = NoInfo
    /\ error = ""

NextMerger == MergerNext \/ MergerStop
\* an EventMerger iterated to its end
SpecMerger == InitMerger /\ [][NextMerger]_vars

NonDecreasing(q) == \A i \in 1..Len(q) : \A j \in i..Len(q) : q[i] <= q[j]

\* C31: if every stream is non-decreasing in access_ts, the events the
\* EventMerger has emitted are non-decreasing in access_ts, and of two emitted
\* events with equal access_ts the one that entered the heap first (the one
\* with the smaller event_index) was emitted first.
C31_MergedStreamIsOrdered ==
    (driver = "merger" /\ \A s \in 1..NumStreams : NonDecreasing(state.streams[s]))
      => \A i \in 1..Len(hist) : \A j \in (i + 1)..Len(hist) :
           \/ hist[i].ts < hist[j].ts
           \/ (hist[i].ts = hist[j].ts /\ hist[i].index < hist[j].index)

\* every event of two non-decreasing streams was emitted, two of equal
\* access_ts from different streams among them, and a stream alternation
C31_MergedATie ==
    /\ driver = "merger"
    /\ \A s \in 1..NumStreams : NonDecreasing(state.streams[s])
    /\ state.heap = {}
    /\ Len(hist) >= 4
    /\ \E i \in 1..Len(hist) : \E j \in (i + 1)..Len(hist) :
         /\ hist[i].ts = hist[j].ts
         /\ hist[i].stream # hist[j].stream
         /\ hist[i].pos > 1

(***************************************************************************)
(* OnlineCacheSystem and OfflineCacheSystem (cache/__init__.py) over       *)
(* processors that each own a Storage.  The input is a sequence of         *)
(* AccessAssignments [cache_proc, file, parts, ts]; state holds the        *)
(* system: its kind, its processors and, offline, its EventMerger; ind is  *)
(* the number of assignments the online loop has taken; hist is the        *)
(* sequence of the AccessInfos emitted, each with the index k of its       *)
(* assignment in the input and the processor that made it.                 *)
(***************************************************************************)
\* number of processors of a cache system
SysProcs == 2
\* number of assignments of the input of a cache system
SysLen == 3

\* the parts of the accesses given to a cache system
SysParts == {<<<<0, b>>>> : b \in 1..MaxPartBytes}

\* the policies of the processors: the processor factory makes them all alike
OnlinePolicies == {[kind |-> k, mode |-> ""] : k \in {"LRU", "MCF"}}
OfflinePolicies == {[kind |-> "MIN", mode |-> ""]}

\* AccessAssignment sequences in non-decreasing access_ts order
Assignments ==
    {q \in [1..SysLen -> [cache_proc : 0..(SysProcs - 1), file : FileIDs, parts : SysParts,
                           ts : 1..2]] :
        \A k \in 1..(SysLen - 1) : q[k].ts <= q[k + 1].ts}

\* the indices in the input of the assignments of processor cache_proc, in
\* input order: filter(lambda assgnm: assgnm.cache_proc == cache_proc, it)
RECURSIVE ScopedFrom(_, _, _)
ScopedFrom(input, cache_proc, k) ==
    IF k > Len(input) THEN <<>>
    ELSE IF input[k].cache_proc = cache_proc
    THEN <<k>> \o ScopedFrom(input, cache_proc, k + 1)
    ELSE ScopedFrom(input, cache_proc, k + 1)

filter_cache_processor(cache_proc, input) == ScopedFrom(input, cache_proc, 1)

\* the files and the timestamps of the accesses a processor is scoped to
ScopedFiles(input, cache_proc) ==
    [i \in 1..Len(filter_cache_processor(cache_proc, input)) |->
        input[filter_cache_processor(cache_proc, input)[i]].file]

ScopedTs(input, cache_proc) ==
    [i \in 1..Len(filter_cache_processor(cache_proc, input)) |->
        input[filter_cache_processor(cache_proc, input)[i]].ts]

\* the runs a processor may be in after _process_access of one access, its
\* own access number being the number of AccessInfos it has returned
SendRun(run, a, files_seq) ==
    {IF o.raised
     THEN [run EXCEPT !.raised = TRUE, !.error = o.error, !.storage = o.storage]
     ELSE [run EXCEPT !.storage = o.storage, !.state = o.state, !.infos = Append(@, o.info)]
       : o \in processor_process_access(run.policy, run.storage, run.state, Len(run.infos),
                                        a.file, a.parts, files_seq)}

\* one round of the loop of OnlineCacheSystem._split:
\* access_info = self._processors[cache_proc].send(access); yield access_info
SystemSplit ==
    /\ driver = "system"
    /\ state.kind = "online"
    /\ pc = "idle"
    /\ ind < Len(trace_files)
    /\ \E run \in SendRun(state.procs[trace_files[ind + 1].cache_proc + 1],
                          trace_files[ind + 1], <<>>) :
         /\ state' = [state EXCEPT !.procs[trace_files[ind + 1].cache_proc + 1] = run]
         /\ IF run.raised
            THEN /\ pc' = "raised"
                 /\ error' = run.error
                 /\ UNCHANGED <<ind, hist>>
            ELSE /\ ind' = ind + 1
                 /\ hist' = Append(hist, [k |-> ind + 1,
                                          proc |-> trace_files[ind + 1].cache_proc,
                                          info |-> run.infos[Len(run.infos)]])
                 /\ UNCHANGED <<pc, error>>
    /\ UNCHANGED <<driver, uniform, storage, call, policy, loc, info, trace_files>>

\* the end of OnlineCacheSystem._split: every processor is sent None and stops
SystemFinish ==
    /\ driver = "system"
    /\ state.kind = "online"
    /\ pc = "idle"
    /\ ind = Len(trace_files)
    /\ pc' = "done"
    /\ UNCHANGED <<driver, uniform, storage, call, policy, state, ind, loc, info, hist, error,
                   trace_files>>

\* the processors after each from cache_proc on has made the first AccessInfo
\* of its stream, as EventMerger.__init__ asks for; a processor that raises
\* ends the loop
RECURSIVE PrepareRuns(_, _, _)
PrepareRuns(procs, input, cache_proc) ==
    IF cache_proc >= Len(procs) THEN {procs}
    ELSE IF Len(filter_cache_processor(cache_proc, input)) = 0
    THEN PrepareRuns(procs, input, cache_proc + 1)
    ELSE UNION {IF run.raised THEN {[procs EXCEPT ![cache_proc + 1] = run]}
                ELSE PrepareRuns([procs EXCEPT ![cache_proc + 1] = run], input, cache_proc + 1)
                  : run \in SendRun(procs[cache_proc + 1],
                                    input[filter_cache_processor(cache_proc, input)[1]],
                                    ScopedFiles(input, cache_proc))}

SomeRaised(procs) == \E i \in 1..Len(procs) : procs[i].raised
RaisedError(procs) == procs[CHOOSE i \in 1..Len(procs) : procs[i].raised].error

\* OfflineCacheSystem.__init__: EventMerger(self._prepare_processors(...), key)
SystemPrepare ==
    /\ driver = "system"
    /\ state.kind = "offline"
    /\ pc = "new"
    /\ \E procs \in PrepareRuns(state.procs, trace_files, 0) :
         IF SomeRaised(procs)
         THEN /\ state' = [state EXCEPT !.procs = procs]
              /\ pc' = "raised"
              /\ error' = RaisedError(procs)
         ELSE /\ state' = [state EXCEPT !.procs = procs,
                                        !.merger = EventMerger([s \in 1..Len(procs) |->
                                                       ScopedTs(trace_files, s - 1)])]
              /\ pc' = "idle"
              /\ UNCHANGED error
    /\ UNCHANGED <<driver, uniform, storage, call, policy, ind, loc, info, hist, trace_files>>

\* the AccessInfo event of a heap entry, as the system emits it
EmittedEvent(input, procs, ev) ==
    [k |-> filter_cache_processor(ev.stream - 1, input)[ev.pos], proc |-> ev.stream - 1,
     info |-> procs[ev.stream].infos[ev.pos]]

\* next() of the OfflineCacheSystem: EventMerger.__next__ takes the top event,
\* has its processor make the next AccessInfo of the stream, and returns the
\* event; an exception of the processor leaves __next__ before the return
SystemNext ==
    /\ driver = "system"
    /\ state.kind = "offline"
    /\ pc = "idle"
    /\ state.merger.heap # {}
    /\ IF heap_top(state.merger.heap).pos
            < Len(state.merger.streams[heap_top(state.merger.heap).stream])
       THEN \E run \in SendRun(state.procs[heap_top(state.merger.heap).stream],
                               trace_files[filter_cache_processor(
                                               heap_top(state.merger.heap).stream - 1,
                                               trace_files)[heap_top(state.merger.heap).pos + 1]],
                               ScopedFiles(trace_files, heap_top(state.merger.heap).stream - 1)) :
              IF run.raised
              THEN /\ state' = [state EXCEPT !.procs[heap_top(state.merger.heap).stream] = run]
                   /\ pc' = "raised"
                   /\ error' = run.error
                   /\ UNCHANGED hist
              ELSE /\ state' = [state EXCEPT
                                  !.procs[heap_top(state.merger.heap).stream] = run,
                                  !.merger = merger_advance(@, heap_top(state.merger.heap))]
                   /\ hist' = Append(hist, EmittedEvent(trace_files, state.procs,
                                                        heap_top(state.merger.heap)))
                   /\ UNCHANGED <<pc, error>>
       ELSE /\ state' = [state EXCEPT
                           !.merger = merger_advance(@, heap_top(state.merger.heap))]
            /\ hist' = Append(hist, EmittedEvent(trace_files, state.procs,
                                                 heap_top(state.merger.heap)))
            /\ UNCHANGED <<pc, error>>
    /\ UNCHANGED <<driver, uniform, storage, call, policy, ind, loc, info, trace_files>>

\* next() of the OfflineCacheSystem on an empty heap: StopIteration
SystemStop ==
    /\ driver = "system"
    /\ state.kind = "offline"
    /\ pc = "idle"
    /\ state.merger.heap = {}
    /\ pc' = "done"
    /\ UNCHANGED <<driver, uniform, storage, call, policy, state, ind, loc, info, hist, error,
                   trace_files>>

\* a cache system of SysProcs processors of one policy, each on a Storage of
\* its own of the same size (cli.py, cache_system_from_args)
InitSystem ==
    /\ driver = "system"
    /\ trace_files \in Assignments
    /\ \E total \in 1..MaxCapacity :
         \/ \E p \in OnlinePolicies :
              /\ state = [kind |-> "online", procs |-> [s \in 1..SysProcs |-> NewRun(p, total)],
                          merger |-> EventMerger(<<>>)]
              /\ pc = "idle"
         \/ \E p \in OfflinePolicies :
              /\ state = [kind |-> "offline", procs |-> [s \in 1..SysProcs |-> NewRun(p, total)],
                          merger |-> EventMerger(<<>>)]
              /\ pc = "new"
    /\ hist = <<>>
    /\ storage = NewStorage(0)
    /\ policy = [kind |-> "none", mode |-> ""]
    /\ uniform = NoUniform
    /\ call = NoCall
    /\ ind = 0
    /\ loc = NoLoc
    /\ info = NoInfo
    /\ error = ""

NextSystem == SystemSplit \/ SystemFinish \/ SystemPrepare \/ SystemNext \/ SystemStop
\* cache systems iterated to their end
SpecSystem == InitSystem /\ [][NextSystem]_vars

\* C32: every AccessInfo a cache system emits was made by the processor at
\* index cache_proc of its assignment, for the file of that assignment; no
\* assignment is emitted twice; the AccessInfos of one processor come in input
\* order; the online system emits in input order; and when the iteration of
\* the system has ended every assignment of the input has been emitted.
C32_OneInfoPerAssignment ==
    driver = "system"
      => /\ \A i \in 1..Len(hist) :
              /\ hist[i].proc = trace_files[hist[i].k].cache_proc
              /\ hist[i].info.file = trace_files[hist[i].k].file
              /\ state.kind = "online" => hist[i].k = i
              /\ \A j \in (i + 1)..Len(hist) :
                   /\ hist[i].k # hist[j].k
                   /\ hist[i].proc = hist[j].proc => hist[i].k < hist[j].k
         /\ pc \in {"done", "raised"} => Len(hist) = Len(trace_files)

(***************************************************************************)
(* StatsCollector (cache/stats.py) around the AccessInfo stream of a cache *)
(* system of one MCF processor.  state holds the processor run, the        *)
(* StatsCounters and the MissOnFirstReaccessFilter; ind counts the         *)
(* AccessInfos pulled, the access_ts of an access is its number.  hist     *)
(* remembers, for the latest AccessInfo, the counters before it and        *)
(* whether its file had been accessed since the reset.                     *)
(***************************************************************************)
\* number of accesses pulled through a StatsCollector
StatsLen == 4

\* StatsCounters(): TotalStats and the FileStats of the files seen, of which
\* the residency timestamps are kept
NewCounters ==
    [accesses |-> 0, files_hit |-> 0, files_missed |-> 0, bytes_hit |-> 0, bytes_missed |-> 0,
     bytes_added |-> 0, bytes_removed |-> 0, files |-> EmptyMap]

NewFileStats == [last_residency_begin |-> 0, last_residency_end |-> 0]

\* workload StatsCounters.process_access(access): the file gets its FileStats
counters_process_access(c, file) ==
    [c EXCEPT !.accesses = @ + 1,
              !.files = IF file \in DOMAIN @ THEN @ ELSE Put(@, file, NewFileStats)]

\* the loop over access_info.evicted_files of process_access_info
RECURSIVE end_residencies(_, _, _)
end_residencies(files, evicted_files, ts) ==
    IF evicted_files = <<>> THEN files
    ELSE end_residencies(IF Head(evicted_files) \in DOMAIN files
                         THEN [files EXCEPT ![Head(evicted_files)].last_residency_end = ts]
                         ELSE files,
                         Tail(evicted_files), ts)

\* cache StatsCounters.process_access_info(access_info), of a file that has
\* its FileStats
process_access_info(c, ai, ts) ==
    [c EXCEPT !.files_hit = IF ai.file_hit THEN @ + 1 ELSE @,
              !.files_missed = IF ai.file_hit THEN @ ELSE @ + 1,
              !.bytes_hit = @ + ai.bytes_hit,
              !.bytes_missed = @ + ai.bytes_missed,
              !.bytes_added = @ + ai.bytes_added,
              !.bytes_removed = @ + ai.bytes_removed,
              !.files = end_residencies(
                            IF ai.file_hit THEN @
                            ELSE [@ EXCEPT ![ai.file].last_residency_begin = ts],
                            ai.evicted_files, ts)]

\* StatsCounters.reset(): the file statistics are cleared, the totals zeroed
counters_reset(c) == NewCounters

\* MissOnFirstReaccessFilter._build_marked_files(counters): the files it marks
build_marked_files(c) ==
    {f \in DOMAIN c.files : c.files[f].last_residency_end <= c.files[f].last_residency_begin}

\* no filter in place: self._filter is None
NoFilter == [present |-> FALSE, marked_files |-> {}]

\* MissOnFirstReaccessFilter.__call__(access_info): an unmarked file's
\* AccessInfo is returned as it is; for a marked file the first statement
\* after the lookup reads access_info.hit_parts, which AccessInfo
\* (cache/processor.py 9-39) does not have
filter_raises(filter, ai) == filter.present /\ ai.file \in filter.marked_files

\* self._filter after the call: dropped when it marks no file
filter_after(filter) == IF filter.present /\ filter.marked_files = {} THEN NoFilter ELSE filter

\* next() of the StatsCollector: one AccessInfo of the system, counted
StatsNext ==
    /\ driver = "stats"
    /\ pc = "idle"
    /\ ind < StatsLen
    /\ \E file \in FileIDs, parts \in SysParts :
       \E run \in SendRun(state.run, [file |-> file, parts |-> parts], <<>>) :
         IF run.raised
         THEN /\ state' = [state EXCEPT !.run = run]
              /\ pc' = "raised"
              /\ error' = run.error
              /\ UNCHANGED <<ind, hist>>
         ELSE /\ hist' = [hist EXCEPT !.seen = @ \cup {file},
                                      !.first = file \notin hist.seen,
                                      !.info = run.infos[Len(run.infos)],
                                      !.before = state.counters]
              /\ ind' = ind + 1
              /\ IF filter_raises(state.filter, run.infos[Len(run.infos)])
                 THEN /\ state' = [state EXCEPT
                                     !.run = run,
                                     !.counters = counters_process_access(@, file)]
                      /\ pc' = "raised"
                      /\ error' = "AttributeError: hit_parts"
                 ELSE /\ state' = [state EXCEPT
                                     !.run = run,
                                     !.filter = filter_after(@),
                                     !.counters = process_access_info(
                                                      counters_process_access(@, file),
                                                      run.infos[Len(run.infos)], ind + 1)]
                      /\ UNCHANGED <<pc, error>>
    /\ call' = [NoCall EXCEPT !.op = "next"]
    /\ UNCHANGED <<driver, uniform, storage, policy, loc, info, trace_files>>

\* CacheSystem.reset_after_warm_up(): StatsCollector.reset()
StatsCollectorReset ==
    /\ driver = "stats"
    /\ pc = "idle"
    /\ ~state.reset
    /\ state' = [state EXCEPT !.reset = TRUE,
                              !.filter = [present |-> TRUE,
                                          marked_files |-> build_marked_files(state.counters)],
                              !.counters = counters_reset(@)]
    /\ hist' = [hist EXCEPT !.seen = {}, !.first = FALSE, !.info = NoInfo,
                            !.before = NewCounters]
    /\ call' = [NoCall EXCEPT !.op = "reset_after_warm_up"]
    /\ UNCHANGED <<driver, uniform, storage, policy, ind, pc, loc, info, error, trace_files>>

\* the warm-up reset of cli.replay: cache_sys.stats.reset(), which is
\* StatsCounters.reset() and puts no filter in place
StatsCountersReset ==
    /\ driver = "stats"
    /\ pc = "idle"
    /\ ~state.reset
    /\ state' = [state EXCEPT !.reset = TRUE, !.counters = counters_reset(@)]
    /\ hist' = [hist EXCEPT !.seen = {}, !.first = FALSE, !.info = NoInfo,
                            !.before = NewCounters]
    /\ call' = [NoCall EXCEPT !.op = "stats.reset"]
    /\ UNCHANGED <<driver, uniform, storage, policy, ind, pc, loc, info, error, trace_files>>

InitStats ==
    /\ driver = "stats"
    /\ \E total \in MaxCapacity..(2 * MaxCapacity) :
         state = [run |-> NewRun([kind |-> "MCF", mode |-> ""], total),
                  counters |-> NewCounters, filter |-> NoFilter, reset |-> FALSE]
    /\ hist = [seen |-> {}, first |-> FALSE, info |-> NoInfo, before |-> NewCounters]
    /\ storage = NewStorage(0)
    /\ policy = [kind |-> "none", mode |-> ""]
    /\ uniform = NoUniform
    /\ trace_files = <<>>
    /\ call = NoCall
    /\ ind = 0
    /\ pc = "idle"
    /\ loc = NoLoc
    /\ info = NoInfo
    /\ error = ""

NextStats == StatsNext \/ StatsCollectorReset \/ StatsCountersReset
\* a cache system's statistics over a run with one warm-up reset
SpecStats == InitStats /\ [][NextStats]_vars

\* what the latest AccessInfo added to a total counter
Counted(field) == state.counters[field] - hist.before[field]

\* C33: right after a warm-up reset every counter is 0; the first access
\* after the reset to a file that is fully cached is counted with no bytes
\* hit, the requested bytes missed and no bytes added; later fully cached
\* accesses to the file are counted as hits.
C33_FirstReaccessCountsAsMiss ==
    (driver = "stats" /\ state.reset)
      => /\ call.op # "next"
              => /\ state.counters.accesses = 0
                 /\ state.counters.bytes_hit = 0
                 /\ state.counters.bytes_missed = 0
                 /\ state.counters.bytes_added = 0
                 /\ state.counters.files_hit = 0
                 /\ state.counters.files_missed = 0
         /\ (call.op = "next" /\ hist.info.valid /\ hist.info.bytes_missed = 0)
              => /\ pc # "raised"
                 /\ Counted("bytes_added") = 0
                 /\ IF hist.first
                    THEN Counted("bytes_hit") = 0 /\ Counted("bytes_missed") = hist.info.bytes_hit
                    ELSE Counted("bytes_hit") = hist.info.bytes_hit
                           /\ Counted("bytes_missed") = 0

(***************************************************************************)
(* ReuseTimer and FullReuseIndex (dstructures/accessseq.py) over an access *)
(* sequence, trace_files.  state holds the two indices as constructed; a   *)
(* call reads them and changes nothing, so each behaviour makes one call   *)
(* and keeps it with its result in call.  Arrays are functions over        *)
(* 0..(N - 1) as in the code, the flat parts arrays sequences in which     *)
(* array index i is element i + 1.  A result of Optional type is <<>> for  *)
(* None and <<v>> for the value v.                                         *)
(***************************************************************************)
\* longest sequence and number of files of the sequences that differ in
\* their files only
SeqLen == 5
SeqFiles == 3
\* longest sequence and largest part size of the sequences that differ in
\* their parts too
PartsSeqLen == 3
SeqPartBytes == 3

\* len() of an array
ArrayLen(a) == Cardinality(DOMAIN a)

None == <<>>
Some(v) == <<v>>

\* accesses as the tests build them: every access reads 1 byte of part 0
FileAccessSeqs ==
    UNION {[1..n -> [file : 1..SeqFiles, parts : {<<<<0, 1>>>>}]] : n \in 0..SeqLen}

\* part lists that name each part index once, in ascending order
SeqParts ==
    {<<<<p, b>>>> : p \in PartInds, b \in 1..SeqPartBytes}
      \cup {q \in [1..2 -> PartInds \X (1..SeqPartBytes)] : q[1][1] < q[2][1]}

PartAccessSeqs == UNION {[1..n -> [file : FileIDs, parts : SeqParts]] : n \in 0..PartsSeqLen}

FilesSeq(accesses) == [i \in 1..Len(accesses) |-> accesses[i].file]

\* the order of tuples (part index, size)
PartLE(a, b) == a[1] < b[1] \/ (a[1] = b[1] /\ a[2] <= b[2])

\* sorted(access.parts)
RECURSIVE sorted_parts(_)
sorted_parts(parts) ==
    IF parts = <<>> THEN <<>>
    ELSE LET k == CHOOSE k \in 1..Len(parts) : \A j \in 1..Len(parts) : PartLE(parts[k], parts[j])
         IN <<parts[k]>> \o sorted_parts(SubSeq(parts, 1, k - 1) \o SubSeq(parts, k + 1, Len(parts)))

\* ReuseTimer.reuse_time(ind)
reuse_time(reuse_ind, i) ==
    IF reuse_ind[i] >= ArrayLen(reuse_ind) THEN None ELSE Some(reuse_ind[i] - i)

\* ReuseTimer.reuse_time_inf(ind)
reuse_time_inf(reuse_ind, i) ==
    IF reuse_ind[i] >= ArrayLen(reuse_ind) THEN Inf ELSE Num(reuse_ind[i] - i)

\* the mistaken reading: the index itself, also past the end
reuse_ind_unchecked(reuse_ind, i) == Some(reuse_ind[i])

\* ReuseTimer.reuse_ind(ind)
reuse_ind(reuse_ind_array, i) ==
    IF reuse_ind_array[i] >= ArrayLen(reuse_ind_array) THEN None ELSE Some(reuse_ind_array[i])

\* ReuseTimer.reuse_ind_inf(ind), of the array as built
timer_reuse_ind_inf(reuse_ind_array, i) ==
    IF reuse_ind_array[i] >= ArrayLen(reuse_ind_array) THEN Inf ELSE Num(reuse_ind_array[i])

\* one round of the loop of FullReuseIndex._build
build_step(access, i, prev_access, accesses_length, b) ==
    [prev_use_ind |-> [b.prev_use_ind EXCEPT ![i] =
                          IF access.file \in DOMAIN prev_access THEN prev_access[access.file]
                          ELSE accesses_length],
     parts_offset |-> [b.parts_offset EXCEPT ![i] = b.running_offset],
     parts |-> b.parts \o [k \in 1..Len(access.parts) |-> sorted_parts(access.parts)[k][1]],
     part_sizes |-> b.part_sizes
                      \o [k \in 1..Len(access.parts) |-> sorted_parts(access.parts)[k][2]],
     running_offset |-> b.running_offset + Len(access.parts)]

\* the loop of FullReuseIndex._build over enumerate(accesses)
RECURSIVE build_loop(_, _, _, _)
build_loop(accesses, i, prev_access, b) ==
    IF i >= Len(accesses) THEN b
    ELSE build_loop(accesses, i + 1, Put(prev_access, accesses[i + 1].file, i),
                    build_step(accesses[i + 1], i, prev_access, Len(accesses), b))

\* the tuple FullReuseIndex._build returns (access_ts, which nothing modelled
\* reads, left out)
build_result(b, next_use_ind) ==
    [prev_use_ind |-> b.prev_use_ind, next_use_ind |-> next_use_ind,
     parts_offset |-> b.parts_offset, parts |-> b.parts, part_sizes |-> b.part_sizes]

FullReuseIndex(accesses) ==
    build_result(build_loop(accesses, 0, EmptyMap,
                            [prev_use_ind |-> [i \in 0..(Len(accesses) - 1) |-> 0],
                             parts_offset |-> [i \in 0..(Len(accesses) - 1) |-> 0],
                             parts |-> <<>>, part_sizes |-> <<>>, running_offset |-> 0]),
                 build_reuse_ind(FilesSeq(accesses)))

\* parts_range(ind): the first array index and the one after the last
parts_range_start(fri, i) == fri.parts_offset[i]
parts_range_end(fri, i) ==
    IF (i + 1) \in DOMAIN fri.parts_offset THEN fri.parts_offset[i + 1] ELSE Len(fri.parts)

\* FullReuseIndex.parts(ind)
fri_parts(fri, i) ==
    [k \in 1..(parts_range_end(fri, i) - parts_range_start(fri, i)) |->
        <<fri.parts[parts_range_start(fri, i) + k], fri.part_sizes[parts_range_start(fri, i) + k]>>]

\* the dict missing of _accessed_following, as the sequence of its items
\* [part_ind, size_requested, max_size_found] in insertion order
RECURSIVE new_missing(_, _)
new_missing(parts, missing) ==
    IF parts = <<>> THEN missing
    ELSE new_missing(
             Tail(parts),
             IF \E k \in 1..Len(missing) : missing[k].part_ind = Head(parts)[1]
             THEN [k \in 1..Len(missing) |->
                      IF missing[k].part_ind = Head(parts)[1]
                      THEN [missing[k] EXCEPT !.size_requested = Head(parts)[2]]
                      ELSE missing[k]]
             ELSE Append(missing, [part_ind |-> Head(parts)[1], size_requested |-> Head(parts)[2],
                                   max_size_found |-> 0]))

\* the body of the loop over parts_range(next_ind) for one array index
scan_part(part_ind, part_size, r) ==
    IF ~\E k \in 1..Len(r.missing) : r.missing[k].part_ind = part_ind THEN r
    ELSE LET m == r.missing[CHOOSE k \in 1..Len(r.missing) : r.missing[k].part_ind = part_ind]
         IN IF part_size >= m.size_requested
            THEN [missing |-> SelectSeq(r.missing, LAMBDA x : x.part_ind # part_ind),
                  out |-> Append(r.out, <<part_ind, m.size_requested>>)]
            ELSE IF part_size > m.max_size_found
            THEN [missing |-> [k \in 1..Len(r.missing) |->
                                  IF r.missing[k].part_ind = part_ind
                                  THEN [r.missing[k] EXCEPT !.max_size_found = part_size]
                                  ELSE r.missing[k]],
                  out |-> r.out]
            ELSE r

\* the loop over parts_range(next_ind)
RECURSIVE scan_parts(_, _, _, _)
scan_parts(fri, i, end, r) ==
    IF i >= end THEN r
    ELSE scan_parts(fri, i + 1, end, scan_part(fri.parts[i + 1], fri.part_sizes[i + 1], r))

\* the final loop over missing.items()
RECURSIVE found_partly(_)
found_partly(missing) ==
    IF missing = <<>> THEN <<>>
    ELSE (IF Head(missing).max_size_found > 0
          THEN <<<<Head(missing).part_ind, Head(missing).max_size_found>>>>
          ELSE <<>>) \o found_partly(Tail(missing))

\* the while loop of _accessed_following
RECURSIVE following_loop(_, _, _, _)
following_loop(fri, following_use_ind, next_ind, r) ==
    IF Len(r.missing) > 0 /\ next_ind < ArrayLen(following_use_ind)
    THEN following_loop(fri, following_use_ind, following_use_ind[next_ind],
                        scan_parts(fri, parts_range_start(fri, next_ind),
                                   parts_range_end(fri, next_ind), r))
    ELSE r.out \o found_partly(r.missing)

\* a following that stops at the first access of the file
first_following(fri, start_ind, following_use_ind, parts) ==
    IF following_use_ind[start_ind] < ArrayLen(following_use_ind)
    THEN following_loop(fri, following_use_ind, ArrayLen(following_use_ind),
                        scan_parts(fri, parts_range_start(fri, following_use_ind[start_ind]),
                                   parts_range_end(fri, following_use_ind[start_ind]),
                                   [missing |-> new_missing(parts, <<>>), out |-> <<>>]))
    ELSE <<>>

\* FullReuseIndex._accessed_following(start_ind, following_use_ind, parts)
accessed_following(fri, start_ind, following_use_ind, parts) ==
    following_loop(fri, following_use_ind, following_use_ind[start_ind],
                   [missing |-> new_missing(parts, <<>>), out |-> <<>>])

accessed_after(fri, after_ind, parts) ==
    accessed_following(fri, after_ind, fri.next_use_ind, parts)

accessed_before(fri, before_ind, parts) ==
    accessed_following(fri, before_ind, fri.prev_use_ind, parts)

\* a change that forgets the files becoming inactive
change_to_newly_active_files(fri, i) ==
    IF fri.next_use_ind[i] # ArrayLen(fri.prev_use_ind) /\ fri.prev_use_ind[i] = ArrayLen(fri.prev_use_ind)
    THEN 1 ELSE 0

\* change_to_active_files(full_reuse_index, ind)
change_to_active_files(fri, i) ==
    IF fri.prev_use_ind[i] # ArrayLen(fri.prev_use_ind) /\ ~(fri.next_use_ind[i] # ArrayLen(fri.prev_use_ind))
    THEN -1
    ELSE IF fri.next_use_ind[i] # ArrayLen(fri.prev_use_ind)
              /\ ~(fri.prev_use_ind[i] # ArrayLen(fri.prev_use_ind))
    THEN 1
    ELSE 0

\* itertools.accumulate(change_to_active_files(fri, i) for i in range(n))
RECURSIVE accumulate(_, _, _, _)
accumulate(fri, i, n, sum) ==
    IF i >= n THEN <<>>
    ELSE <<sum + change_to_active_files(fri, i)>>
           \o accumulate(fri, i + 1, n, sum + change_to_active_files(fri, i))

\* the calls of one index of a ReuseTimer
TimerQuery ==
    /\ driver = "accessseq"
    /\ pc = "idle"
    /\ \E i \in 0..(Len(trace_files) - 1) :
         call' = [op |-> "reuse", ind |-> i,
                  reuse_ind |-> reuse_ind(state.timer, i),
                  reuse_time |-> reuse_time(state.timer, i),
                  reuse_ind_inf |-> timer_reuse_ind_inf(state.timer, i),
                  reuse_time_inf |-> reuse_time_inf(state.timer, i)]
    /\ pc' = "returned"
    /\ UNCHANGED <<driver, uniform, storage, policy, state, ind, loc, info, hist, error,
                   trace_files>>

AccessedAfter ==
    /\ driver = "accessseq"
    /\ pc = "idle"
    /\ \E i \in 0..(Len(trace_files) - 1), parts \in SeqParts :
         call' = [op |-> "accessed_after", ind |-> i, parts |-> parts,
                  ret |-> accessed_after(state.index, i, parts)]
    /\ pc' = "returned"
    /\ UNCHANGED <<driver, uniform, storage, policy, state, ind, loc, info, hist, error,
                   trace_files>>

AccessedBefore ==
    /\ driver = "accessseq"
    /\ pc = "idle"
    /\ \E i \in 0..(Len(trace_files) - 1), parts \in SeqParts :
         call' = [op |-> "accessed_before", ind |-> i, parts |-> parts,
                  ret |-> accessed_before(state.index, i, parts)]
    /\ pc' = "returned"
    /\ UNCHANGED <<driver, uniform, storage, policy, state, ind, loc, info, hist, error,
                   trace_files>>

\* the running sums of change_to_active_files over all indices
ActiveFiles ==
    /\ driver = "accessseq"
    /\ pc = "idle"
    /\ call' = [op |-> "accumulate", ind |-> 0,
                ret |-> accumulate(state.index, 0, ArrayLen(state.index.prev_use_ind), 0)]
    /\ pc' = "returned"
    /\ UNCHANGED <<driver, uniform, storage, policy, state, ind, loc, info, hist, error,
                   trace_files>>

AccessSeqInit(seqs) ==
    /\ driver = "accessseq"
    /\ trace_files \in seqs
    /\ state = [timer |-> build_reuse_ind(FilesSeq(trace_files)),
                index |-> FullReuseIndex(trace_files)]
    /\ ind = 0
    /\ call = [op |-> "", ind |-> 0]
    /\ storage = NewStorage(0)
    /\ policy = [kind |-> "none", mode |-> ""]
    /\ uniform = NoUniform
    /\ hist = NoHist
    /\ pc = "idle"
    /\ loc = NoLoc
    /\ info = NoInfo
    /\ error = ""

InitAccessSeq == AccessSeqInit(FileAccessSeqs)
NextAccessSeq == TimerQuery \/ ActiveFiles
\* the indices of an access sequence and the calls that read the files
SpecAccessSeq == InitAccessSeq /\ [][NextAccessSeq]_vars

InitAccessedParts == AccessSeqInit(PartAccessSeqs)
NextAccessedParts == AccessedAfter \/ AccessedBefore
\* the full index of an access sequence and the calls that read the parts
SpecAccessedParts == InitAccessedParts /\ [][NextAccessedParts]_vars

\* the smallest later index of the file of index i, or the length
SmallestLater(files_seq, i) ==
    IF \E j \in (i + 1)..(Len(files_seq) - 1) : files_seq[j + 1] = files_seq[i + 1]
    THEN CHOOSE j \in (i + 1)..(Len(files_seq) - 1) :
           /\ files_seq[j + 1] = files_seq[i + 1]
           /\ \A k \in (i + 1)..(j - 1) : files_seq[k + 1] # files_seq[i + 1]
    ELSE Len(files_seq)

\* C34: next_use_ind[i] is the smallest later index of the same file, or N
\* if there is none; reuse_ind and reuse_time are None (the _inf variants
\* infinity) exactly when it is N, and next_use_ind[i] and next_use_ind[i] - i
\* otherwise.
C34_NextUseIsSmallestLaterIndex ==
    driver = "accessseq"
      => /\ \A i \in 0..(Len(trace_files) - 1) :
              /\ state.timer[i] = SmallestLater(FilesSeq(trace_files), i)
              /\ state.index.next_use_ind[i] = SmallestLater(FilesSeq(trace_files), i)
         /\ call.op = "reuse"
              => IF SmallestLater(FilesSeq(trace_files), call.ind) = Len(trace_files)
                 THEN /\ call.reuse_ind = None
                      /\ call.reuse_time = None
                      /\ call.reuse_ind_inf = Inf
                      /\ call.reuse_time_inf = Inf
                 ELSE /\ call.reuse_ind = Some(SmallestLater(FilesSeq(trace_files), call.ind))
                      /\ call.reuse_time
                           = Some(SmallestLater(FilesSeq(trace_files), call.ind) - call.ind)
                      /\ call.reuse_ind_inf = Num(SmallestLater(FilesSeq(trace_files), call.ind))
                      /\ call.reuse_time_inf
                           = Num(SmallestLater(FilesSeq(trace_files), call.ind) - call.ind)

\* a reuse over an access of another file, and an index with no reuse
C34_ReuseSkipsAnotherFile ==
    /\ driver = "accessseq"
    /\ call.op = "reuse"
    /\ call.ind = 0
    /\ call.reuse_ind = Some(3)
    /\ call.reuse_time_inf = Num(3)
    /\ FilesSeq(trace_files) = <<1, 2, 3, 1, 2>>
    /\ state.timer = [i \in 0..4 |-> IF i = 0 THEN 3 ELSE IF i = 1 THEN 4 ELSE 5]

\* the sizes with which part p of the file of index i is read at the indices
\* of others
SizesRead(accesses, i, p, others) ==
    {accesses[j + 1].parts[k][2] :
        <<j, k>> \in {x \in others \X (1..2) :
                         /\ accesses[x[1] + 1].file = accesses[i + 1].file
                         /\ x[2] <= Len(accesses[x[1] + 1].parts)
                         /\ accesses[x[1] + 1].parts[x[2]][1] = p}}

SetMax(S) == CHOOSE x \in S : \A y \in S : y <= x

\* each requested part that is read at one of the indices, with the largest
\* size read there up to the size requested
ReadAmong(accesses, i, parts, others) ==
    {<<parts[k][1], Min(parts[k][2], SetMax(SizesRead(accesses, i, parts[k][1], others)))>> :
        k \in {k \in 1..Len(parts) : SizesRead(accesses, i, parts[k][1], others) # {}}}

ElementsOf(q) == {q[k] : k \in 1..Len(q)}

C36_RunningSumCountsActiveFiles ==
    (driver = "accessseq" /\ call.op = "accumulate")
      => /\ Len(call.ret) = Len(trace_files)
         /\ \A i \in 1..Len(call.ret) :
              /\ call.ret[i]
                   = Cardinality({f \in 1..SeqFiles :
                         /\ \E j \in 1..i : trace_files[j].file = f
                         /\ \E j \in (i + 1)..Len(trace_files) : trace_files[j].file = f})
              /\ call.ret[i] >= 0
              /\ call.ret[i] <= Cardinality({trace_files[j].file : j \in 1..Len(trace_files)})
         /\ Len(call.ret) > 0 => call.ret[Len(call.ret)] = 0

\* a file is active while an access of another file passes
C36_ActiveAcrossAnotherFile ==
    /\ driver = "accessseq"
    /\ call.op = "accumulate"
    /\ FilesSeq(trace_files) = <<1, 2, 2, 3, 1>>
    /\ call.ret = <<1, 2, 1, 1, 0>>


\* C37: an access during whose eviction loop the policy returned the accessed
\* file itself is reported as a complete miss: no bytes hit, the requested
\* bytes missed and added, total_bytes the requested bytes, the file among
\* the evicted files; the loop has gone on until the whole requested size
\* fits, and State.process_access is called with ensure true.
C37_SelfEvictionIsCompleteMiss ==
    [][(driver = "processor" /\ pc = "evicting" /\ pc' = "idle"
          /\ InSeq(loc.evicted_files, loc.file))
         => /\ info'.valid
            /\ info'.bytes_hit = 0
            /\ info'.bytes_missed = SizeSum(loc.parts)
            /\ info'.bytes_added = SizeSum(loc.parts)
            /\ info'.total_bytes = SizeSum(loc.parts)
            /\ InSeq(info'.evicted_files, info'.file)
            /\ free_bytes(storage) >= SizeSum(loc.parts)
            /\ ensure_of(loc)]_vars

\* a partly cached file was evicted for its own access and then another file
\* to make room for all of it
C37_SelfThenAnotherEvicted ==
    /\ driver = "processor"
    /\ info.valid
    /\ hist.file_before
    /\ Len(info.evicted_files) = 2
    /\ info.evicted_files[1] = info.file
    /\ info.evicted_files[2] # info.file
    /\ info.bytes_missed = 2


(***************************************************************************)
(* Processors that share one Storage (cli.cache_system_from_args with      *)
(* shared_storage): storage is the Storage, state.procs the processors,    *)
(* each with its own policy state and access counter.  The cache system    *)
(* sends one access at a time, so an access is one step.                   *)
(***************************************************************************)
\* number of accesses sent to the processors of a shared Storage
SharedLen == 4

\* processor_factory(storage): a processor with a fresh policy state
NewSharedProcessor(p) == [state |-> new_state(p), ind |-> 0]

\* self._processors[cache_proc].send(access) of an access that requests at
\* most the capacity
SharedSend ==
    /\ driver = "shared"
    /\ pc = "idle"
    /\ ind < SharedLen
    /\ \E proc \in 1..SysProcs, file \in FileIDs, parts \in SysParts :
         /\ requested_bytes(parts) <= storage.total_bytes
         /\ \E o \in processor_process_access(policy, storage, state.procs[proc].state,
                                              state.procs[proc].ind, file, parts, <<>>) :
              /\ storage' = o.storage
              /\ call' = [op |-> "send", proc |-> proc, file |-> file, parts |-> parts,
                          stored_before |-> contains_file(storage, file),
                          used_before |-> storage.used_bytes]
              /\ IF o.raised
                 THEN /\ pc' = "raised"
                      /\ error' = o.error
                      /\ state' = [state EXCEPT !.procs[proc].ind = @ + 1]
                      /\ UNCHANGED <<info, hist>>
                 ELSE /\ state' = [state EXCEPT !.procs[proc] = [state |-> o.state, ind |-> @.ind + 1]]
                      /\ info' = o.info
                      /\ hist' = hist \cup {<<proc, file>>}
                      /\ UNCHANGED <<pc, error>>
    /\ ind' = ind + 1
    /\ UNCHANGED <<driver, uniform, policy, loc, trace_files>>

InitShared ==
    /\ driver = "shared"
    /\ policy \in OnlinePolicies
    /\ \E total \in 1..MaxCapacity : storage = NewStorage(total)
    /\ state = [procs |-> [i \in 1..SysProcs |-> NewSharedProcessor(policy)]]
    /\ hist = {}
    /\ call = [op |-> "", proc |-> 0, file |-> 0, parts |-> <<>>, stored_before |-> FALSE,
               used_before |-> 0]
    /\ uniform = NoUniform
    /\ trace_files = <<>>
    /\ ind = 0
    /\ pc = "idle"
    /\ loc = NoLoc
    /\ info = NoInfo
    /\ error = ""

NextShared == SharedSend
\* processors of one policy on a shared Storage, any interleaving of accesses
SpecShared == InitShared /\ [][NextShared]_vars

\* C38: with one Storage shared by two LRU processors, every access that
\* requests at most the capacity is processed to an AccessInfo without an
\* error, whichever processor cached the file or filled the storage, and
\* used_bytes never exceeds total_bytes.
C38_SharedStorageProcessesEveryAccess ==
    (driver = "shared" /\ policy.kind = "LRU")
      => /\ pc # "raised"
         /\ call.op = "send" => info.valid /\ info.file = call.file
         /\ storage.used_bytes <= storage.total_bytes


(***************************************************************************)
(* recorder.Reader over a recorded file, with a StopEarlyPredicate (cli).  *)
(* trace_files holds the assignments recorded, each the access_ts of its   *)
(* access; the file is the sequence of its bytes, in which the JSON text   *)
(* of the k-th assignment is two bytes k and a line ends with the byte     *)
(* NewLine.  state is the Reader, ind the number of calls made of it.      *)
(***************************************************************************)
\* longest recorded file, in assignments, and number of calls of a Reader
RecordLen == 3
ReaderCalls == 3
\* chunk_size of _reverse_read_jsonl
chunk_size == 64 * 1024

NewLine == 0

\* the nondecreasing access_ts sequences recorded
Recordings ==
    {q \in UNION {[1..n -> 1..MaxTs] : n \in 0..RecordLen} :
        \A i \in 1..(Len(q) - 1) : q[i] <= q[i + 1]}

\* StopEarlyPredicate(time, accesses, None, None) with at most one limit
StopEarlyPredicates ==
    {[time |-> None, accesses |-> None]}
      \cup {[time |-> Some(t), accesses |-> None] : t \in 0..MaxTs}
      \cup {[time |-> None, accesses |-> Some(n)] : n \in 0..(RecordLen + 1)}

\* record_path: _write_assgnm of every assignment
RECURSIVE record(_, _)
record(assgnms, k) ==
    IF k > Len(assgnms) THEN <<>> ELSE <<k, k, NewLine>> \o record(assgnms, k + 1)

\* orjson.loads and _dct_to_assgnm of a line: the assignment it is the text of
dct_to_assgnm(line) == line[1]

\* file.readline() at position pos: the bytes through the next line end
RECURSIVE readline(_, _)
readline(file, pos) ==
    IF pos >= Len(file) THEN <<>>
    ELSE IF file[pos + 1] = NewLine THEN <<NewLine>>
    ELSE <<file[pos + 1]>> \o readline(file, pos + 1)

\* the generator of _replay from position pos: what it yields, each with
\* file.tell() at the time
RECURSIVE replay(_, _, _)
replay(file, pos, end_pos) ==
    IF readline(file, pos) = <<>> THEN <<>>
    ELSE <<[assgnm |-> dct_to_assgnm(readline(file, pos)),
            tell |-> pos + Len(readline(file, pos))]>>
           \o (IF end_pos # None /\ pos + Len(readline(file, pos)) >= end_pos[1] THEN <<>>
               ELSE replay(file, pos + Len(readline(file, pos)), end_pos))

\* bytes.rstrip()
RECURSIVE rstrip(_)
rstrip(buf) ==
    IF buf # <<>> /\ buf[Len(buf)] = NewLine THEN rstrip(SubSeq(buf, 1, Len(buf) - 1)) ELSE buf

\* buf.rindex(b'\n') + 1, or -1 for the ValueError
rindex_after(buf) ==
    IF \E i \in 1..Len(buf) : buf[i] = NewLine
    THEN CHOOSE i \in 1..Len(buf) : buf[i] = NewLine /\ \A j \in (i + 1)..Len(buf) : buf[j] # NewLine
    ELSE -1

\* the loops of _reverse_read_jsonl; read is FALSE when the next chunk has to
\* be read first
RECURSIVE reverse_read_loop(_, _, _, _, _, _)
reverse_read_loop(file, begin_pos, pos, buf, exhausted, read) ==
    IF ~read
    THEN reverse_read_loop(file, begin_pos, Max(begin_pos, pos - chunk_size),
                           SubSeq(file, Max(begin_pos, pos - chunk_size) + 1, pos) \o buf,
                           exhausted \/ pos - Max(begin_pos, pos - chunk_size) < chunk_size, TRUE)
    ELSE IF rindex_after(rstrip(buf)) = -1 /\ ~exhausted
    THEN reverse_read_loop(file, begin_pos, pos, rstrip(buf), exhausted, FALSE)
    ELSE IF rindex_after(rstrip(buf)) = -1 /\ Len(rstrip(buf)) = 0
    THEN <<>>
    ELSE IF rindex_after(rstrip(buf)) = -1
    THEN <<rstrip(buf)>>
    ELSE <<SubSeq(rstrip(buf), rindex_after(rstrip(buf)) + 1, Len(rstrip(buf)))>>
           \o reverse_read_loop(file, begin_pos, pos,
                                SubSeq(rstrip(buf), 1, rindex_after(rstrip(buf))), exhausted, TRUE)

\* _reverse_read_jsonl(file, begin_pos, end_pos): the lines it yields
reverse_read_jsonl(file, begin_pos, end_pos) ==
    reverse_read_loop(file, begin_pos, IF end_pos # None THEN end_pos[1] ELSE Len(file), <<>>,
                      FALSE, FALSE)

\* _reverse_replay(file, begin_pos, end_pos)
reverse_replay(file, begin_pos, end_pos) ==
    [k \in 1..Len(reverse_read_jsonl(file, begin_pos, end_pos)) |->
        dct_to_assgnm(reverse_read_jsonl(file, begin_pos, end_pos)[k])]

\* itertools.takewhile(lambda assgnm: assgnm.access.access_ts <= t, it)
RECURSIVE takewhile(_, _, _)
takewhile(assgnms, t, items) ==
    IF items = <<>> \/ assgnms[Head(items).assgnm] > t THEN <<>>
    ELSE <<Head(items)>> \o takewhile(assgnms, t, Tail(items))

\* itertools.islice(it, accesses)
islice(items, n) == SubSeq(items, 1, Min(n, Len(items)))

\* filter_accesses_stop_early(it, time, accesses, None, None)
filter_accesses_stop_early(assgnms, items, time, accesses) ==
    IF accesses # None
    THEN islice(IF time # None THEN takewhile(assgnms, time[1], items) ELSE items, accesses[1])
    ELSE IF time # None THEN takewhile(assgnms, time[1], items) ELSE items

\* StopEarlyPredicate.take_while(it)
take_while(assgnms, p, items) == filter_accesses_stop_early(assgnms, items, p.time, p.accesses)

\* the Reader once the window taken is known: begin_pos is the end at the
\* time take_while_not returns, which yields nothing; end_pos and the length
\* follow the assignments take_while yields
evaluated(reader, taken) ==
    [reader EXCEPT !.begin_pos = 0,
                   !.end_pos = Some(IF taken = <<>> THEN 0 ELSE taken[Len(taken)].tell),
                   !.len = Some(Len(taken)),
                   !.unevaluated_predicate = FALSE]

\* Reader._evaluate_predicate()
evaluate_predicate(assgnms, reader) ==
    evaluated(reader, take_while(assgnms, reader.predicate, replay(record(assgnms, 1), 0, None)))

\* the Reader when an iterator starts
ready(assgnms, reader) ==
    IF reader.unevaluated_predicate THEN evaluate_predicate(assgnms, reader) ELSE reader

\* the Reader after an iterator that yielded length assignments is exhausted
counted(reader, length) == IF reader.len = None THEN [reader EXCEPT !.len = Some(length)] ELSE reader

AssgnmsOf(items) == [k \in 1..Len(items) |-> items[k].assgnm]

\* Reader.__iter__ of an evaluated Reader, run to its end
reader_iter(assgnms, reader) ==
    AssgnmsOf(replay(record(assgnms, 1), reader.begin_pos, reader.end_pos))

\* Reader.__reversed__ of an evaluated Reader, run to its end
reader_reversed(assgnms, reader) ==
    reverse_replay(record(assgnms, 1), reader.begin_pos, reader.end_pos)

\* Reader.__len__ of a Reader whose length is not known
reader_measured(assgnms, reader) ==
    IF reader.unevaluated_predicate THEN evaluate_predicate(assgnms, reader)
    ELSE counted(reader, Len(reader_iter(assgnms, reader)))

\* list(reader)
ReaderIter ==
    /\ driver = "reader"
    /\ ind < ReaderCalls
    /\ call' = [op |-> "iter", ret |-> reader_iter(trace_files, ready(trace_files, state))]
    /\ state' = counted(ready(trace_files, state),
                        Len(reader_iter(trace_files, ready(trace_files, state))))
    /\ ind' = ind + 1
    /\ UNCHANGED <<driver, uniform, storage, policy, pc, loc, info, hist, error, trace_files>>

\* list(reversed(reader))
ReaderReversed ==
    /\ driver = "reader"
    /\ ind < ReaderCalls
    /\ call' = [op |-> "reversed", ret |-> reader_reversed(trace_files, ready(trace_files, state))]
    /\ state' = counted(ready(trace_files, state),
                        Len(reader_reversed(trace_files, ready(trace_files, state))))
    /\ ind' = ind + 1
    /\ UNCHANGED <<driver, uniform, storage, policy, pc, loc, info, hist, error, trace_files>>

\* len(reader)
ReaderLen ==
    /\ driver = "reader"
    /\ ind < ReaderCalls
    /\ state' = (IF state.len = None THEN reader_measured(trace_files, state) ELSE state)
    /\ call' = [op |-> "len",
                ret |-> (IF state.len = None THEN reader_measured(trace_files, state)
                         ELSE state).len[1]]
    /\ ind' = ind + 1
    /\ UNCHANGED <<driver, uniform, storage, policy, pc, loc, info, hist, error, trace_files>>

\* Reader(path, predicate) of a recorded file
InitReader ==
    /\ driver = "reader"
    /\ trace_files \in Recordings
    /\ \E p \in StopEarlyPredicates :
         state = [predicate |-> p, unevaluated_predicate |-> TRUE, begin_pos |-> 0,
                  end_pos |-> None, len |-> None]
    /\ call = [op |-> "", ret |-> <<>>]
    /\ ind = 0
    /\ storage = NewStorage(0)
    /\ policy = [kind |-> "none", mode |-> ""]
    /\ uniform = NoUniform
    /\ hist = NoHist
    /\ pc = "idle"
    /\ loc = NoLoc
    /\ info = NoInfo
    /\ error = ""

NextReader == ReaderIter \/ ReaderReversed \/ ReaderLen
\* a Reader with a stop-early predicate, iterated and measured in any order
SpecReader == InitReader /\ [][NextReader]_vars

\* StopEarlyPredicate.__call__ for the k-th assignment the predicate is asked
predicate_holds(assgnms, p, k) ==
    IF p.time # None THEN assgnms[k] <= p.time[1]
    ELSE IF p.accesses # None THEN k <= p.accesses[1]
    ELSE TRUE

\* the leading assignments for which the predicate holds
Leading(assgnms, p) ==
    [k \in 1..Cardinality({k \in 1..Len(assgnms) : \A j \in 1..k : predicate_holds(assgnms, p, j)})
       |-> k]

Reversed(q) == [k \in 1..Len(q) |-> q[Len(q) + 1 - k]]

\* C39: a Reader with a stop-early predicate yields exactly the leading
\* assignments for which the predicate holds, reversed(reader) the same in
\* reverse order, and len() is the number yielded, also when the predicate
\* holds for no assignment.
C39_ReaderYieldsTheLeadingWindow ==
    driver = "reader"
      => /\ call.op = "iter" => call.ret = Leading(trace_files, state.predicate)
         /\ call.op = "reversed" => call.ret = Reversed(Leading(trace_files, state.predicate))
         /\ call.op = "len" => call.ret = Len(Leading(trace_files, state.predicate))


(***************************************************************************)
(* Termination of _process_access.  A call that has begun goes on running: *)
(* the statements of the eviction loop and the placement after it are      *)
(* weakly fair; nothing obliges the caller to send another access.         *)
(***************************************************************************)
\* a processor of LRU, FIFO, MIN or OBMA on a fresh Storage of its own
InitTermination ==
    /\ InitProcessor
    /\ policy.kind \in {"LRU", "FIFO", "MIN", "OBMA"}

SpecTermination ==
    /\ InitTermination
    /\ [][NextProcessor]_vars
    /\ WF_vars(PopCandidates)
    /\ WF_vars(EvictCandidate)
    /\ WF_vars(PlaceAccess)

\* C40: with LRU, FIFO, MIN or OBMA on a Storage of its own, an access that
\* misses at least one byte and requests no more than the capacity comes to
\* its end: after finitely many calls of pop_eviction_candidates the file is
\* placed and the AccessInfo of the access is returned, without an error.
C40_MissingAccessTerminates ==
    (driver = "processor" /\ pc = "evicting" /\ loc.requested_bytes <= storage.total_bytes)
      ~> (pc = "idle" /\ info.valid)

====
